---- MODULE Spec2Model ----
(***************************************************************************)
(* A model of the wasp binary reader (src/src/binary/reader-inl.h).        *)
(*                                                                         *)
(* A span (SpanU8) is a pair of offsets [b, e) into the immutable buffer   *)
(* `input`.  A reader state is the triple the C++ functions thread         *)
(* through every call: the cursor `data`, the errors reported to the       *)
(* error sink `errs`, and the sink's context stack `ctx`.                  *)
(*                                                                         *)
(* Integers of 32 and 64 bits are modelled as the set of the positions of  *)
(* their one bits (a subset of 0..W-1), so that the width, the truncation  *)
(* of shifts and the sign extension are those of the C++ types.            *)
(***************************************************************************)
EXTENDS Integers, Sequences, FiniteSets, TLC

VARIABLES input, gen, data, errs, ctx, last, mod, iter

vars == <<input, gen, data, errs, ctx, last, mod, iter>>

(***************************************************************************)
(* Bounds of the model.                                                    *)
(***************************************************************************)
MaxOps == 2

MaxTail == 1

MaxSections == 2

(***************************************************************************)
(* Arithmetic on bytes and on bit sets.                                    *)
(***************************************************************************)
RECURSIVE Pow2(_)
Pow2(n) == IF n = 0 THEN 1 ELSE 2 * Pow2(n - 1)

Bit(x, k) == (x \div Pow2(k)) % 2

\* a & b on u8
RECURSIVE ByteAnd(_, _)
ByteAnd(a, b) ==
  IF a = 0 \/ b = 0 THEN 0
  ELSE (a % 2) * (b % 2) + 2 * ByteAnd(a \div 2, b \div 2)

\* ~a on u8 (the int result of ~ narrowed to u8)
ByteNot(a) == 255 - a

\* the one bits of a byte, as positions
BitsOf(x) == {k \in 0..7 : Bit(x, k) = 1}

\* U(x) << s on a W-bit unsigned integer
Shl(W, x, s) == {b + s : b \in x} \cap (0..(W - 1))

\* arithmetic x >> s on a W-bit signed integer
Sar(W, x, s) ==
  {b - s : b \in {c \in x : c >= s}}
    \cup (IF (W - 1) \in x THEN (W - s)..(W - 1) ELSE {})

\* logical x >> s on a W-bit unsigned integer
Shr(W, x, s) == {b - s : b \in {c \in x : c >= s}}

\* the number a bit set stands for, when it fits in 30 bits
RECURSIVE BitsToNat(_)
BitsToNat(x) ==
  IF x = {} THEN 0
  ELSE LET b == CHOOSE c \in x : TRUE IN Pow2(b) + BitsToNat(x \ {b})

\* u32 > n, for a size n of the model (n < 2^30)
BitsGt(x, n) == (\E b \in x : b >= 30) \/ BitsToNat(x) > n

\* the W-bit two's complement representation of a small integer
NatToBits(n) == {k \in 0..29 : Bit(n, k) = 1}

IntToBits(W, v) ==
  IF v >= 0 THEN NatToBits(v) ELSE (0..(W - 1)) \ NatToBits((-v) - 1)

(***************************************************************************)
(* Integer types read by ReadVarInt.                                       *)
(***************************************************************************)
VarIntTypes == {"u32", "s32", "s64"}

Width(T) == IF T = "s64" THEN 64 ELSE 32

IsSigned(T) == T \in {"s32", "s64"}

(***************************************************************************)
(* Spans and reader states.                                                *)
(***************************************************************************)
Span(b, e) == [b |-> b, e |-> e]

Size(s) == s.e - s.b

remove_prefix(s, n) == Span(s.b + n, s.e)

subspan(s, off, n) == Span(s.b + off, s.b + off + n)

Bytes(s) == [k \in 1..Size(s) |-> input[s.b + k]]

St(d, e, c) == [data |-> d, errs |-> e, ctx |-> c]

NoVal == [none |-> TRUE]

\* the value x bound once, then used by F (a local variable of the C++)
Then(x, F(_)) == CHOOSE v \in {F(r) : r \in {x}} : TRUE

Ok(v, st) == [ok |-> TRUE, val |-> v, st |-> st]

Fail(st) == [ok |-> FALSE, val |-> NoVal, st |-> st]

\* errors.OnError(*data, message)
OnError(st, msg) ==
  [st EXCEPT !.errs = Append(@, [msg |-> msg, at |-> st.data, ctx |-> st.ctx])]

\* errors.PushContext(*data, desc)
PushContext(st, desc) == [st EXCEPT !.ctx = Append(@, desc)]

\* errors.PopContext()
PopContext(st) ==
  [st EXCEPT !.ctx = IF Len(@) = 0 THEN @ ELSE SubSeq(@, 1, Len(@) - 1)]

\* ~ErrorsContextGuard: the guard pops on every return path
GuardExit(r) == [r EXCEPT !.st = PopContext(@)]

(***************************************************************************)
(* Read<u8> and ReadBytes.                                                 *)
(***************************************************************************)
ReadU8(st) ==
  IF Size(st.data) < 1
  THEN Fail(OnError(st, "Unable to read u8"))
  ELSE Ok(input[st.data.b + 1], [st EXCEPT !.data = remove_prefix(@, 1)])

\* a ReadBytes that returns the bytes that are there when there are fewer
\* than N
ReadBytesShort(st, N) ==
  IF Size(st.data) < N
  THEN Ok(st.data, [st EXCEPT !.data = remove_prefix(@, Size(st.data))])
  ELSE Ok(Span(st.data.b, st.data.b + N),
          [st EXCEPT !.data = remove_prefix(@, N)])

ReadBytes(st, N) ==
  IF Size(st.data) < N
  THEN Fail(OnError(st, "Unable to read bytes"))
  ELSE Ok(Span(st.data.b, st.data.b + N),
          [st EXCEPT !.data = remove_prefix(@, N)])

(***************************************************************************)
(* ReadVarInt.                                                             *)
(***************************************************************************)
\* the value returned as it was accumulated, without the sign extension
SignExtendNone(W, x, N) == x

SignExtend(W, x, N) == Sar(W, Shl(W, x, W - N - 1), W - N - 1)

\* the byte count rounded down instead of up
kMaxBytesFloor(T) == Width(T) \div 7

kMaxBytes(T) == (Width(T) + 6) \div 7

kUsedBitsInLastByte(T) == Width(T) - 7 * (kMaxBytes(T) - 1)

\* the sign bit counted among the bits the last byte must not extend
kMaskBitsUnsigned(T) == kUsedBitsInLastByte(T)

kMaskBits(T) == kUsedBitsInLastByte(T) - (IF IsSigned(T) THEN 1 ELSE 0)

kMask(T) == ByteNot(Pow2(kMaskBits(T)) - 1)

kOnes(T) == ByteAnd(kMask(T), 127)

\* the continuation bit of the last byte left out of the test
LastByteOkLow7(T, byte) ==
  \/ ByteAnd(ByteAnd(byte, kMask(T)), 127) = 0
  \/ IsSigned(T) /\ ByteAnd(ByteAnd(byte, kMask(T)), 127) = kOnes(T)

\* a last byte of zero refused, as a decoder of canonical encodings would
LastByteOkCanonical(T, byte) ==
  /\ byte # 0
  /\ \/ ByteAnd(byte, kMask(T)) = 0
     \/ IsSigned(T) /\ ByteAnd(byte, kMask(T)) = kOnes(T)

LastByteOk(T, byte) ==
  \/ ByteAnd(byte, kMask(T)) = 0
  \/ IsSigned(T) /\ ByteAnd(byte, kMask(T)) = kOnes(T)

RECURSIVE ReadVarIntLoop(_, _, _, _)
ReadVarIntLoop(T, st, i, result) ==
  Then(ReadU8(st), LAMBDA r :
    IF ~r.ok THEN Fail(r.st)
    ELSE
      Then(r.val, LAMBDA byte :
      Then(i * 7, LAMBDA shift :
      Then(result \cup Shl(Width(T), BitsOf(ByteAnd(byte, 127)), shift),
           LAMBDA result2 :
        IF i + 1 = kMaxBytes(T)
        THEN IF LastByteOk(T, byte)
             THEN Ok(result2, r.st)
             ELSE Fail(OnError(r.st,
                    IF IsSigned(T) THEN "Last byte must be sign extension"
                                   ELSE "Last byte must be zero extension"))
        ELSE IF ByteAnd(byte, 128) = 0
             THEN Ok(IF IsSigned(T)
                     THEN SignExtend(Width(T), result2, 6 + shift)
                     ELSE result2, r.st)
             ELSE ReadVarIntLoop(T, r.st, i + 1, result2)))))

ReadVarInt(T, st, desc) ==
  GuardExit(ReadVarIntLoop(T, PushContext(st, desc), 0, {}))

ReadU32(st) == ReadVarInt("u32", st, "vu32")

ReadIndex(st) == ReadVarInt("u32", st, "index")

ReadS32(st) == ReadVarInt("s32", st, "vs32")

ReadS64(st) == ReadVarInt("s64", st, "vs64")

(***************************************************************************)
(* ReadCount, ReadStr, ReadVec<Index>.                                     *)
(***************************************************************************)
\* the count returned without the test against the remaining bytes
ReadCountUnchecked(st) == ReadIndex(st)

ReadCount(st) ==
  Then(ReadIndex(st), LAMBDA r :
    IF ~r.ok THEN Fail(r.st)
    ELSE IF BitsGt(r.val, Size(r.st.data))
         THEN Fail(OnError(r.st, "Count is longer than the data length"))
         ELSE Ok(r.val, r.st))

ReadStrBody(st) ==
  Then(ReadCount(st), LAMBDA r :
    IF ~r.ok THEN Fail(r.st)
    ELSE IF BitsGt(r.val, Size(r.st.data))
         THEN Fail(OnError(r.st, "Unable to read string"))
         ELSE Then(BitsToNat(r.val), LAMBDA len :
                Ok(Span(r.st.data.b, r.st.data.b + len),
                   [r.st EXCEPT !.data = remove_prefix(@, len)])))

ReadStr(st, desc) == GuardExit(ReadStrBody(PushContext(st, desc)))

\* the loop of ReadVec: i elements read so far into result
RECURSIVE ReadVecLoop(_, _, _, _)
ReadVecLoop(st, len, i, result) ==
  IF i < len
  THEN Then(ReadIndex(st), LAMBDA r :
         IF ~r.ok
         THEN [ok |-> FALSE, val |-> NoVal, st |-> r.st, attempts |-> i + 1]
         ELSE ReadVecLoop(r.st, len, i + 1, Append(result, r.val)))
  ELSE [ok |-> TRUE, val |-> result, st |-> st, attempts |-> i]

\* besides the optional vector, the result records the argument of
\* result.reserve and the number of Read<T> calls of the loop
ReadVecBody(st) ==
  Then(ReadCount(st), LAMBDA r :
    IF ~r.ok
    THEN [ok |-> FALSE, val |-> NoVal, st |-> r.st, attempts |-> 0,
          reserved |-> 0, avail |-> Size(r.st.data)]
    ELSE Then(BitsToNat(r.val), LAMBDA len :
         Then(ReadVecLoop(r.st, len, 0, <<>>), LAMBDA l :
           [ok |-> l.ok, val |-> l.val, st |-> l.st, attempts |-> l.attempts,
            reserved |-> len, avail |-> Size(r.st.data)])))

ReadVec(st, desc) == GuardExit(ReadVecBody(PushContext(st, desc)))

(***************************************************************************)
(* Sections.                                                               *)
(***************************************************************************)
\* encoding::Section::Decode: the section ids with a meaning (0 = custom)
KnownSectionIds == 0..13

SectionDecode(val) ==
  IF (\A b \in val : b < 30) /\ BitsToNat(val) \in KnownSectionIds
  THEN [ok |-> TRUE, id |-> BitsToNat(val)]
  ELSE [ok |-> FALSE, id |-> -1]

SectionIdCustom == 0

ReadSectionIdBody(st) ==
  Then(ReadU32(st), LAMBDA r :
    IF ~r.ok THEN Fail(r.st)
    ELSE Then(SectionDecode(r.val), LAMBDA d :
           IF ~d.ok THEN Fail(OnError(r.st, "Unknown section"))
           ELSE Ok(d.id, r.st)))

ReadSectionId(st) == GuardExit(ReadSectionIdBody(PushContext(st, "section")))

\* Read(Tag<Section<>>) after the guard: WASP_TRY_READ_CONTEXT returns
\* between PushContext and PopContext when the read fails
ReadSectionCustom(st, st3, id, section_span) ==
  Then(ReadStr([st3 EXCEPT !.data = section_span], "custom section name"),
       LAMBDA rn :
         IF ~rn.ok THEN Fail([rn.st EXCEPT !.data = st3.data])
         ELSE Ok([kind |-> "custom", id |-> id, name |-> rn.val,
                  data |-> rn.st.data, start |-> st.data.b],
                 [rn.st EXCEPT !.data = st3.data]))

\* the cursor left where the body starts
ReadSectionSpanNoAdvance(st, st2, id, len) ==
  Then(subspan(st2.data, 0, len), LAMBDA section_span :
    IF id = SectionIdCustom
    THEN ReadSectionCustom(st, st2, id, section_span)
    ELSE Ok([kind |-> "known", id |-> id, name |-> Span(0, 0),
             data |-> section_span, start |-> st.data.b], st2))

ReadSectionSpan(st, st2, id, len) ==
  Then(subspan(st2.data, 0, len), LAMBDA section_span :
    Then([st2 EXCEPT !.data = remove_prefix(@, len)], LAMBDA st3 :
      IF id = SectionIdCustom
      THEN ReadSectionCustom(st, st3, id, section_span)
      ELSE Ok([kind |-> "known", id |-> id, name |-> Span(0, 0),
               data |-> section_span, start |-> st.data.b], st3)))

ReadSectionBody(st) ==
  Then(ReadSectionId(PushContext(st, "id")), LAMBDA r1 :
    IF ~r1.ok THEN Fail(r1.st)
    ELSE
      Then(ReadU32(PushContext(PopContext(r1.st), "length")), LAMBDA r2 :
        IF ~r2.ok THEN Fail(r2.st)
        ELSE
          Then(PopContext(r2.st), LAMBDA st2 :
            IF BitsGt(r2.val, Size(st2.data))
            THEN Fail(OnError(st2, "Section length is too long"))
            ELSE ReadSectionSpan(st, st2, r1.val, BitsToNat(r2.val)))))

ReadSection(st) == GuardExit(ReadSectionBody(PushContext(st, "section")))

\* LazySection<T>::LazySection(SpanU8 data, Errors&)
LazySection(st) ==
  Then(ReadCount(st), LAMBDA r :
    [count |-> r, sequence |-> r.st.data, st |-> r.st])

(***************************************************************************)
(* LazySequenceIterator over Section<>, and LazyModule.                    *)
(***************************************************************************)
NullSpan == Span(-1, -1)

NoSection ==
  [kind |-> "none", id |-> -1, name |-> Span(0, 0), data |-> Span(0, 0),
   start |-> -1]

\* LazySequenceIteratorBase::empty and clear
IterEmpty(it) == Size(it.data) = 0

IterClear(it) == [it EXCEPT !.data = NullSpan]

\* LazySequence::end() and operator== of the iterators
IterAtEnd(it) ==
  it.data = NullSpan \/ (IterEmpty(it) /\ it.value = NoSection)

\* the iterator cleared after a successful read too
IncrementClears(it, e, c) ==
  IF ~IterEmpty(it)
  THEN Then(ReadSection(St(it.data, e, c)), LAMBDA r :
         <<IterClear([it EXCEPT !.data = r.st.data,
                                !.value = IF r.ok THEN r.val ELSE NoSection]),
           r.st>>)
  ELSE <<IterClear(it), St(it.data, e, c)>>

\* the iterator not cleared when the read failed
IncrementKeeps(it, e, c) ==
  IF ~IterEmpty(it)
  THEN Then(ReadSection(St(it.data, e, c)), LAMBDA r :
         <<[it EXCEPT !.data = r.st.data,
                      !.value = IF r.ok THEN r.val ELSE NoSection], r.st>>)
  ELSE <<IterClear(it), St(it.data, e, c)>>

\* LazySequenceIteratorBase::Increment; the second component is the reader
\* state with the errors and contexts of the sequence's error sink
Increment(it, e, c) ==
  IF ~IterEmpty(it)
  THEN Then(ReadSection(St(it.data, e, c)), LAMBDA r :
         IF r.ok
         THEN <<[it EXCEPT !.data = r.st.data, !.value = r.val], r.st>>
         ELSE <<IterClear([it EXCEPT !.data = r.st.data, !.value = NoSection]),
                r.st>>)
  ELSE <<IterClear(it), St(it.data, e, c)>>

\* LazySequenceIterator::LazySequenceIterator(Sequence*, SpanU8)
IterConstruct(it0, d, e, c) ==
  Then([it0 EXCEPT !.data = d, !.value = NoSection], LAMBDA it :
    IF ~IterEmpty(it) THEN Increment(it, e, c) ELSE <<it, St(d, e, c)>>)

kMagic == <<0, 97, 115, 109>>

kVersion == <<1, 0, 0, 0>>

\* the version compared only when the magic matched
LazyModuleCtorElse(d, e, c) ==
  Then(ReadBytes(St(d, e, c), 4), LAMBDA magic :
  Then(ReadBytes(magic.st, 4), LAMBDA version :
  Then(version.st, LAMBDA st0 :
  Then(IF ~magic.ok \/ Bytes(magic.val) # kMagic
       THEN OnError(st0, "Magic mismatch")
       ELSE IF ~version.ok \/ Bytes(version.val) # kVersion
            THEN OnError(st0, "Version mismatch") ELSE st0, LAMBDA st2 :
    [built |-> TRUE, crashed |-> FALSE,
     magic |-> [ok |-> magic.ok, val |-> magic.val],
     version |-> [ok |-> version.ok, val |-> version.val],
     sections |-> st0.data, ub |-> (~magic.ok \/ ~version.ok),
     st0 |-> st0, st |-> st2]))))

\* LazyModule::LazyModule.  The members are initialised in the order magic,
\* version, sections; `*magic` and `*version` in the messages dereference
\* the optionals whether or not they hold a value
LazyModuleCtor(d, e, c) ==
  Then(ReadBytes(St(d, e, c), 4), LAMBDA magic :
  Then(ReadBytes(magic.st, 4), LAMBDA version :
  Then(version.st, LAMBDA st0 :
  Then(IF ~magic.ok \/ Bytes(magic.val) # kMagic
       THEN OnError(st0, "Magic mismatch") ELSE st0, LAMBDA st1 :
  Then(IF ~version.ok \/ Bytes(version.val) # kVersion
       THEN OnError(st1, "Version mismatch") ELSE st1, LAMBDA st2 :
    [built |-> TRUE, crashed |-> FALSE,
     magic |-> [ok |-> magic.ok, val |-> magic.val],
     version |-> [ok |-> version.ok, val |-> version.val],
     sections |-> st0.data, ub |-> (~magic.ok \/ ~version.ok),
     st0 |-> st0, st |-> st2])))))

(***************************************************************************)
(* Enumerations read as one byte, and the instruction reader.  An opcode   *)
(* is the value of its byte.                                               *)
(***************************************************************************)
\* WASP_TRY_READ_CONTEXT(var, call, desc): the context pushed before the
\* call is popped only when the call succeeded
TryReadContext(st, desc, Call(_)) ==
  Then(Call(PushContext(st, desc)), LAMBDA r :
    IF ~r.ok THEN Fail(r.st) ELSE Ok(r.val, PopContext(r.st)))

\* encoding::ValType::Decode and encoding::BlockType::Decode
ValTypes == {124, 125, 126, 127}

BlockTypes == ValTypes \cup {64}

\* the opcodes of Read<Instr>, by the shape of their immediate
NoImmOpcodes == {0, 1, 5, 11, 15, 26, 27} \cup (69..191)

BlockOpcodes == {2, 3, 4}

IndexOpcodes == {12, 13, 16, 32, 33, 34, 35, 36}

BrTableOpcodes == {14}

CallIndirectOpcodes == {17}

MemArgOpcodes == 40..62

ReservedOpcodes == {63, 64}

I32ConstOpcodes == {65}

I64ConstOpcodes == {66}

F32ConstOpcodes == {67}

F64ConstOpcodes == {68}

GetGlobalOpcodes == {35}

EndOpcodes == {11}

\* encoding::Opcode::Decode
OpcodeDecode(val) ==
  val \in NoImmOpcodes \cup BlockOpcodes \cup IndexOpcodes \cup BrTableOpcodes
            \cup CallIndirectOpcodes \cup MemArgOpcodes \cup ReservedOpcodes
            \cup I32ConstOpcodes \cup I64ConstOpcodes \cup F32ConstOpcodes
            \cup F64ConstOpcodes

ReadValType(st) ==
  GuardExit(
    Then(ReadU8(PushContext(st, "valtype")), LAMBDA r :
      IF ~r.ok THEN Fail(r.st)
      ELSE IF r.val \notin ValTypes
           THEN Fail(OnError(r.st, "Unknown valtype"))
           ELSE Ok(r.val, r.st)))

ReadBlockType(st) ==
  GuardExit(
    Then(ReadU8(PushContext(st, "blocktype")), LAMBDA r :
      IF ~r.ok THEN Fail(r.st)
      ELSE IF r.val \notin BlockTypes
           THEN Fail(OnError(r.st, "Unknown blocktype"))
           ELSE Ok(r.val, r.st)))

ReadOpcode(st) ==
  GuardExit(
    Then(ReadU8(PushContext(st, "opcode")), LAMBDA r :
      IF ~r.ok THEN Fail(r.st)
      ELSE IF ~OpcodeDecode(r.val)
           THEN Fail(OnError(r.st, "Unknown opcode"))
           ELSE Ok(r.val, r.st)))

\* Read<f32> and Read<f64>: the value is the bytes read
ReadF32(st) ==
  Then(ReadBytes(st, 4), LAMBDA r :
    IF ~r.ok THEN Fail(r.st) ELSE Ok(Bytes(r.val), r.st))

ReadF64(st) ==
  Then(ReadBytes(st, 8), LAMBDA r :
    IF ~r.ok THEN Fail(r.st) ELSE Ok(Bytes(r.val), r.st))

ReadLimits(st) ==
  GuardExit(
    Then(TryReadContext(PushContext(st, "limits"), "flags", ReadU32),
         LAMBDA flags :
      IF ~flags.ok THEN Fail(flags.st)
      ELSE Then(TryReadContext(flags.st, "min", ReadU32), LAMBDA min :
        IF ~min.ok THEN Fail(min.st)
        ELSE IF 0 \in flags.val
             THEN Then(TryReadContext(min.st, "max", ReadU32), LAMBDA max :
                    IF ~max.ok THEN Fail(max.st)
                    ELSE Ok([min |-> min.val, has_max |-> TRUE,
                             max |-> max.val], max.st))
             ELSE Ok([min |-> min.val, has_max |-> FALSE, max |-> {}],
                     min.st))))

ReadLocalDecl(st) ==
  GuardExit(
    Then(TryReadContext(PushContext(st, "local decl"), "count", ReadIndex),
         LAMBDA count :
      IF ~count.ok THEN Fail(count.st)
      ELSE Then(TryReadContext(count.st, "type", ReadValType), LAMBDA type :
        IF ~type.ok THEN Fail(type.st)
        ELSE Ok([count |-> count.val, type |-> type.val], type.st))))

ReadMemArg(st) ==
  Then(TryReadContext(st, "align log2", ReadU32), LAMBDA align_log2 :
    IF ~align_log2.ok THEN Fail(align_log2.st)
    ELSE Then(TryReadContext(align_log2.st, "offset", ReadU32),
              LAMBDA offset :
      IF ~offset.ok THEN Fail(offset.st)
      ELSE Ok([align_log2 |-> align_log2.val, offset |-> offset.val],
              offset.st)))

Instr(opcode, shape, imm) == [opcode |-> opcode, shape |-> shape, imm |-> imm]

\* Read<Instr>: the immediate, one case per group of the switch
ReadBrTable(opcode, st) ==
  Then(ReadVec(st, "br_table targets"), LAMBDA targets :
    IF ~targets.ok THEN Fail(targets.st)
    ELSE Then(TryReadContext(targets.st, "br_table default target",
                             ReadIndex), LAMBDA default_target :
      IF ~default_target.ok THEN Fail(default_target.st)
      ELSE Ok(Instr(opcode, "br_table",
                    [targets |-> targets.val,
                     default_target |-> default_target.val]),
              default_target.st)))

ReadCallIndirect(opcode, st) ==
  Then(ReadIndex(st), LAMBDA index :
    IF ~index.ok THEN Fail(index.st)
    ELSE Then(TryReadContext(index.st, "reserved", ReadU8), LAMBDA reserved :
      IF ~reserved.ok THEN Fail(reserved.st)
      ELSE Ok(Instr(opcode, "call_indirect",
                    [index |-> index.val, reserved |-> reserved.val]),
              reserved.st)))

\* one immediate read by Call, wrapped in a context when desc is not ""
ReadOneImmediate(opcode, st, shape, desc, Call(_)) ==
  Then(IF desc = "" THEN Call(st) ELSE TryReadContext(st, desc, Call),
       LAMBDA r :
    IF ~r.ok THEN Fail(r.st) ELSE Ok(Instr(opcode, shape, r.val), r.st))

\* every opcode read without an immediate
ReadImmediateNone(opcode, st) == Ok(Instr(opcode, "empty", NoVal), st)

ReadImmediate(opcode, st) ==
  IF opcode \in NoImmOpcodes THEN Ok(Instr(opcode, "empty", NoVal), st)
  ELSE IF opcode \in BlockOpcodes
  THEN ReadOneImmediate(opcode, st, "block_type", "", ReadBlockType)
  ELSE IF opcode \in IndexOpcodes
  THEN ReadOneImmediate(opcode, st, "index", "", ReadIndex)
  ELSE IF opcode \in BrTableOpcodes THEN ReadBrTable(opcode, st)
  ELSE IF opcode \in CallIndirectOpcodes THEN ReadCallIndirect(opcode, st)
  ELSE IF opcode \in MemArgOpcodes
  THEN ReadOneImmediate(opcode, st, "memarg", "", ReadMemArg)
  ELSE IF opcode \in ReservedOpcodes
  THEN ReadOneImmediate(opcode, st, "u8", "reserved", ReadU8)
  ELSE IF opcode \in I32ConstOpcodes
  THEN ReadOneImmediate(opcode, st, "s32", "i32 constant", ReadS32)
  ELSE IF opcode \in I64ConstOpcodes
  THEN ReadOneImmediate(opcode, st, "s64", "i64 constant", ReadS64)
  ELSE IF opcode \in F32ConstOpcodes
  THEN ReadOneImmediate(opcode, st, "f32", "f32 constant", ReadF32)
  ELSE IF opcode \in F64ConstOpcodes
  THEN ReadOneImmediate(opcode, st, "f64", "f64 constant", ReadF64)
  ELSE Fail(OnError(st, "Unknown opcode"))

ReadInstr(st) ==
  Then(TryReadContext(st, "opcode", ReadOpcode), LAMBDA opcode :
    IF ~opcode.ok THEN Fail(opcode.st) ELSE ReadImmediate(opcode.val, opcode.st))

(***************************************************************************)
(* LazyInstrs, Read<ConstExpr>, and the iteration of an expression.        *)
(***************************************************************************)
NoInstr == Instr(-1, "none", NoVal)

\* LazySequence::end() and operator== of the iterators, for instructions
InstrAtEnd(it) ==
  it.data = NullSpan \/ (IterEmpty(it) /\ it.value = NoInstr)

\* LazySequenceIteratorBase::Increment over instructions
IncrementInstr(it, e, c) ==
  IF ~IterEmpty(it)
  THEN Then(ReadInstr(St(it.data, e, c)), LAMBDA r :
         IF r.ok
         THEN <<[it EXCEPT !.data = r.st.data, !.value = r.val], r.st>>
         ELSE <<IterClear([it EXCEPT !.data = r.st.data, !.value = NoInstr]),
                r.st>>)
  ELSE <<IterClear(it), St(it.data, e, c)>>

\* instrs.begin()
LazyInstrsBegin(d, e, c) ==
  Then([data |-> d, value |-> NoInstr], LAMBDA it :
    IF ~IterEmpty(it) THEN IncrementInstr(it, e, c) ELSE <<it, St(d, e, c)>>)

ConstExprOpcodes ==
  I32ConstOpcodes \cup I64ConstOpcodes \cup F32ConstOpcodes
    \cup F64ConstOpcodes \cup GetGlobalOpcodes

\* Read<ConstExpr>: `*iter++` reads the second instruction before the first
\* one is looked at; *data moves only on success
ReadConstExpr(st) ==
  Then(LazyInstrsBegin(st.data, st.errs, st.ctx), LAMBDA p1 :
    IF InstrAtEnd(p1[1])
    THEN Fail(OnError([p1[2] EXCEPT !.data = st.data],
                      "Unexpected end of const expr"))
    ELSE Then(IncrementInstr(p1[1], p1[2].errs, p1[2].ctx), LAMBDA p2 :
         Then([p2[2] EXCEPT !.data = st.data], LAMBDA st2 :
           IF p1[1].value.opcode \notin ConstExprOpcodes
           THEN Fail(OnError(st2, "Illegal instruction in const expr"))
           ELSE IF InstrAtEnd(p2[1]) \/ p2[1].value.opcode \notin EndOpcodes
           THEN Fail(OnError(st2, "Expected end instruction"))
           ELSE Then(p2[1].data.b - st.data.b, LAMBDA len :
                  Ok(subspan(st.data, 0, len),
                     [st2 EXCEPT !.data = remove_prefix(st.data, len)])))))

\* Context: the part of the read context an expression uses
NoContext == [seen_final_end |-> FALSE]

\* ReadExpression without the assignment to seen_final_end
ReadExpressionKeep(d, context) ==
  [context |-> context,
   it |-> [data |-> d, value |-> NoInstr, depth |-> 0]]

\* ReadExpression(SpanU8 data, Context& context)
ReadExpression(d, context) ==
  [context |-> [context EXCEPT !.seen_final_end = FALSE],
   it |-> [data |-> d, value |-> NoInstr, depth |-> 0]]

\* the opcodes that open a block: block, loop, if, try
BlockEntryOpcodes == BlockOpcodes \cup {6}

\* the nesting counter and seen_final_end after the instruction v
Nesting(it, context, v) ==
  IF v.opcode \in BlockEntryOpcodes
  THEN <<[it EXCEPT !.depth = @ + 1], context>>
  ELSE IF v.opcode \in EndOpcodes
  THEN IF it.depth = 0
       THEN <<it, [context EXCEPT !.seen_final_end = TRUE]>>
       ELSE <<[it EXCEPT !.depth = @ - 1], context>>
  ELSE <<it, context>>

\* one step of the iterator of an expression: <<iterator, context, state>>
IncrementExpr(it, context, e, c) ==
  IF ~IterEmpty(it) /\ ~context.seen_final_end
  THEN Then(ReadInstr(St(it.data, e, c)), LAMBDA r :
         IF r.ok
         THEN Then(Nesting([it EXCEPT !.data = r.st.data, !.value = r.val],
                           context, r.val), LAMBDA n :
                <<n[1], n[2], r.st>>)
         ELSE <<IterClear([it EXCEPT !.data = r.st.data, !.value = NoInstr]),
                context, r.st>>)
  ELSE <<IterClear(it), context, St(it.data, e, c)>>

(***************************************************************************)
(* The canonical (shortest) LEB128 encoding of a W-bit value.              *)
(***************************************************************************)
RECURSIVE Encode(_, _)
Encode(T, x) ==
  LET W == Width(T)
      byte == BitsToNat(x \cap (0..6))
      rest == IF IsSigned(T) THEN Sar(W, x, 7) ELSE Shr(W, x, 7)
      done == IF IsSigned(T)
              THEN \/ rest = {} /\ 6 \notin x
                   \/ rest = 0..(W - 1) /\ 6 \in x
              ELSE rest = {}
  IN IF done THEN <<byte>> ELSE <<byte + 128>> \o Encode(T, rest)

(***************************************************************************)
(* Inputs.                                                                 *)
(***************************************************************************)
SeqsUpTo(S, n) == UNION {[1..k -> S] : k \in 0..n}

TailBytes == {1, 128}

Tails == SeqsUpTo(TailBytes, MaxTail)

\* bit positions at the edges of the 7-bit groups
EdgeBits(W) ==
  {k \in 0..(W - 1) :
     \/ k % 7 \in {0, 6} /\ (k <= 14 \/ k >= W - 11)
     \/ k = 1
     \/ k = W - 1}

SmallInts == {-65, -64, -2, 2, 3, 5, 63, 64, 65}

\* runs of one bits between two edges, their complements, and small integers
Values(T) ==
  LET W == Width(T)
      runs == {lo..hi : lo \in EdgeBits(W), hi \in EdgeBits(W)}
  IN runs \cup {(0..(W - 1)) \ r : r \in runs}
       \cup {IntToBits(W, v) : v \in {i \in SmallInts : IsSigned(T) \/ i >= 0}}

EncodedInputs ==
  UNION {{[kind |-> "enc", T |-> T, v |-> v, n |-> Len(Encode(T, v)),
           bytes |-> Encode(T, v) \o t] : v \in Values(T), t \in Tails} :
         T \in VarIntTypes}

\* continuation bytes, then any byte where the last byte of a 32-bit or of a
\* 64-bit integer may stand, then one more byte or none
ContBytes == {128, 255}

Rep(c, n) == [k \in 1..n |-> c]

RawInputs ==
  {[kind |-> "raw", T |-> "none", v |-> {}, n |-> 0,
    bytes |-> Rep(c, K - 1) \o <<b>> \o t] :
     c \in ContBytes, K \in {kMaxBytes(U) : U \in VarIntTypes}, b \in 0..255,
     t \in {<<>>}}
  \cup
  {[kind |-> "raw", T |-> "none", v |-> {}, n |-> 0, bytes |-> Rep(c, k)] :
     c \in ContBytes, k \in 0..11}

ReaderInputs == EncodedInputs \cup RawInputs

\* sections: the bytes, the length of the header, the declared length, and
\* whether the header is canonical and the declared length fits
SecType == <<1, 5, 1, 96, 0, 1, 127>>

SecCustom == <<0, 5, 2, 97, 98, 17, 34>>

SecEmpty == <<3, 0>>

SecEmptyCustom == <<0, 1, 0>>

SecPadded == <<1, 133, 128, 128, 128, 0, 1, 96, 0, 1, 127>>

SecLebId == <<129, 0, 1, 0>>

SecTooLong == <<1, 5, 1>>

SecUnknown == <<14, 0>>

SecBadName == <<0, 1, 5>>

SectionPool ==
  {[name |-> "type", bytes |-> SecType, hdr |-> 2, len |-> 5, wf |-> TRUE],
   [name |-> "custom", bytes |-> SecCustom, hdr |-> 2, len |-> 5, wf |-> TRUE],
   [name |-> "empty", bytes |-> SecEmpty, hdr |-> 2, len |-> 0, wf |-> TRUE],
   [name |-> "emptycustom", bytes |-> SecEmptyCustom, hdr |-> 2, len |-> 1,
    wf |-> TRUE],
   [name |-> "padded", bytes |-> SecPadded, hdr |-> 6, len |-> 5, wf |-> TRUE],
   [name |-> "lebid", bytes |-> SecLebId, hdr |-> 3, len |-> 1, wf |-> FALSE],
   [name |-> "toolong", bytes |-> SecTooLong, hdr |-> 2, len |-> 5,
    wf |-> FALSE],
   [name |-> "unknown", bytes |-> SecUnknown, hdr |-> 2, len |-> 0,
    wf |-> FALSE],
   [name |-> "badname", bytes |-> SecBadName, hdr |-> 2, len |-> 1,
    wf |-> FALSE]}

Headers ==
  {[name |-> "ok", bytes |-> kMagic \o kVersion],
   [name |-> "magic", bytes |-> <<0, 97, 115, 110>> \o kVersion],
   [name |-> "version", bytes |-> kMagic \o <<2, 0, 0, 0>>],
   [name |-> "both", bytes |-> <<1, 97, 115, 109, 1, 0, 0, 1>>],
   [name |-> "short", bytes |-> <<0, 97, 115, 109, 1, 0>>],
   [name |-> "tiny", bytes |-> <<0, 97>>]}

RECURSIVE Concat(_)
Concat(ss) == IF ss = <<>> THEN <<>> ELSE Head(ss).bytes \o Concat(Tail(ss))

ModuleInputs ==
  {[kind |-> "module", header |-> h.name, hlen |-> Len(h.bytes), secs |-> ss,
    wf |-> (h.name = "ok" /\ \A k \in 1..Len(ss) : ss[k].wf),
    bytes |-> h.bytes \o Concat(ss)] :
     h \in Headers, ss \in SeqsUpTo(SectionPool, MaxSections)}

(***************************************************************************)
(* State.                                                                  *)
(***************************************************************************)
NoLast ==
  [op |-> "none", T |-> "none", ok |-> FALSE, val |-> NoVal,
   before |-> Span(0, 0), rest |-> Span(0, 0), attempts |-> 0,
   reserved |-> 0, avail |-> 0, k |-> 0, e0 |-> 0]

NoMod ==
  [built |-> FALSE, crashed |-> FALSE, magic |-> [ok |-> FALSE, val |-> NoVal],
   version |-> [ok |-> FALSE, val |-> NoVal], sections |-> Span(0, 0),
   ub |-> FALSE]

NoIter ==
  [started |-> FALSE, data |-> Span(0, 0), value |-> NoSection, seen |-> <<>>,
   opened |-> FALSE]

InitReader ==
  /\ \E g \in ReaderInputs :
       /\ input = g.bytes
       /\ gen = [kind |-> g.kind, T |-> g.T, v |-> g.v, n |-> g.n]
  /\ data = Span(0, Len(input))
  /\ errs = <<>>
  /\ ctx = <<>>
  /\ last = NoLast
  /\ mod = NoMod
  /\ iter = NoIter

InitModule ==
  /\ \E g \in ModuleInputs :
       /\ input = g.bytes
       /\ gen = [kind |-> g.kind, header |-> g.header, hlen |-> g.hlen,
                 secs |-> g.secs, wf |-> g.wf]
  /\ data = Span(0, Len(input))
  /\ errs = <<>>
  /\ ctx = <<>>
  /\ last = NoLast
  /\ mod = NoMod
  /\ iter = NoIter

(***************************************************************************)
(* The reader operations applied to the cursor.                            *)
(***************************************************************************)
Here == St(data, errs, ctx)

Apply(x, op, T, attempts, reserved, avail) ==
  \E r \in {x} :
  /\ data' = r.st.data
  /\ errs' = r.st.errs
  /\ ctx' = r.st.ctx
  /\ last' = [op |-> op, T |-> T, ok |-> r.ok, val |-> r.val, before |-> data,
              rest |-> r.st.data, attempts |-> attempts,
              reserved |-> reserved, avail |-> avail, k |-> last.k + 1,
              e0 |-> Len(errs)]
  /\ UNCHANGED <<input, gen, mod, iter>>

\* a caller stops at the first failed read (WASP_TRY_READ)
CanRead ==
  /\ ~mod.built
  /\ last.k < MaxOps
  /\ last.op = "none" \/ last.ok

DoReadU8 ==
  /\ CanRead
  /\ Apply(ReadU8(Here), "ReadU8", "u8", 0, 0, 0)

ReadBytesSizes == {0, 1, 4, 8}

DoReadBytes ==
  /\ CanRead
  /\ \E N \in ReadBytesSizes : Apply(ReadBytes(Here, N), "ReadBytes", "bytes", N, 0, 0)

DoReadVarInt ==
  /\ CanRead
  /\ \E T \in VarIntTypes :
       Apply(CASE T = "u32" -> ReadU32(Here)
               [] T = "s32" -> ReadS32(Here)
               [] T = "s64" -> ReadS64(Here), "ReadVarInt", T, 0, 0, 0)

DoReadCount ==
  /\ CanRead
  /\ Apply(ReadCount(Here), "ReadCount", "u32", 0, 0, 0)

DoReadStr ==
  /\ CanRead
  /\ Apply(ReadStr(Here, "name"), "ReadStr", "str", 0, 0, 0)

DoReadVec ==
  /\ CanRead
  /\ \E r \in {ReadVec(Here, "initializers")} :
       Apply(r, "ReadVec", "u32", r.attempts, r.reserved, r.avail)

DoReadSection ==
  /\ CanRead
  /\ Apply(ReadSection(Here), "ReadSection", "section", 0, 0, 0)

NextReader ==
  \/ DoReadU8
  \/ DoReadBytes
  \/ DoReadVarInt
  \/ DoReadCount
  \/ DoReadStr
  \/ DoReadVec

SpecReader == InitReader /\ [][NextReader]_vars

(***************************************************************************)
(* Decoding a module: the constructor, then the iteration of its sections. *)
(***************************************************************************)
\* LazyModule{data, errors}.  When magic or version could not be read, the
\* dereference of the empty optional is undefined: the constructor either
\* stops there, or goes on and reports the mismatch
Construct ==
  /\ ~mod.built
  /\ last.op = "none"
  /\ \E m \in {LazyModuleCtor(data, errs, ctx)} :
     \E crash \in (IF m.ub THEN BOOLEAN ELSE {FALSE}) :
       /\ mod' = [built |-> TRUE, crashed |-> crash, magic |-> m.magic,
                  version |-> m.version, sections |-> m.sections, ub |-> m.ub]
       /\ errs' = IF crash THEN m.st0.errs ELSE m.st.errs
       /\ ctx' = m.st.ctx
  /\ UNCHANGED <<input, gen, data, last, iter>>

Yield(it, old) ==
  [it EXCEPT !.started = TRUE, !.opened = FALSE,
             !.seen = IF IterAtEnd(it) THEN old.seen
                      ELSE Append(old.seen, it.value)]

\* sections.begin()
Begin ==
  /\ mod.built /\ ~mod.crashed
  /\ ~iter.started
  /\ \E p \in {IterConstruct(iter, mod.sections, errs, ctx)} :
       /\ iter' = Yield(p[1], iter)
       /\ errs' = p[2].errs
       /\ ctx' = p[2].ctx
  /\ UNCHANGED <<input, gen, data, last, mod>>

\* ++it
Advance ==
  /\ iter.started
  /\ ~IterAtEnd(iter)
  /\ \E p \in {Increment(iter, errs, ctx)} :
       /\ iter' = Yield(p[1], iter)
       /\ errs' = p[2].errs
       /\ ctx' = p[2].ctx
  /\ UNCHANGED <<input, gen, data, last, mod>>

\* LazySection{*it, errors} on a known section
OpenSection ==
  /\ iter.started
  /\ ~IterAtEnd(iter)
  /\ iter.value.kind = "known"
  /\ ~iter.opened
  /\ \E ls \in {LazySection(St(iter.value.data, errs, ctx))} :
       /\ last' = [op |-> "LazySection", T |-> "u32", ok |-> ls.count.ok,
                   val |-> ls.count.val, before |-> iter.value.data,
                   rest |-> ls.sequence, attempts |-> 0, reserved |-> 0,
                   avail |-> 0, k |-> last.k + 1, e0 |-> Len(errs)]
       /\ errs' = ls.st.errs
       /\ ctx' = ls.st.ctx
  /\ iter' = [iter EXCEPT !.opened = TRUE]
  /\ UNCHANGED <<input, gen, data, mod>>

NextModule ==
  \/ DoReadBytes
  \/ DoReadSection
  \/ Construct
  \/ Begin
  \/ Advance
  \/ OpenSection

SpecModule == InitModule /\ [][NextModule]_vars

(***************************************************************************)
(* Instructions: inputs, and the operations applied to them.               *)
(***************************************************************************)
IndexValues == {NatToBits(0), NatToBits(3), NatToBits(128), 0..31}

\* well-formed instructions: the bytes and the instruction they encode
Enc(op, shape, imm, bytes) ==
  [instr |-> Instr(op, shape, imm), bytes |-> <<op>> \o bytes]

InstrPool ==
  {Enc(op, "empty", NoVal, <<>>) : op \in {0, 1, 5, 11, 15, 26, 69, 191}}
  \cup {Enc(op, "block_type", bt, <<bt>>) : op \in BlockOpcodes, bt \in {64, 127}}
  \cup {Enc(op, "index", v, Encode("u32", v)) :
          op \in {12, 16, 32, 35}, v \in IndexValues}
  \cup {Enc(14, "br_table", [targets |-> ts, default_target |-> d],
            Encode("u32", NatToBits(Len(ts)))
              \o Concat([k \in 1..Len(ts) |-> [bytes |-> Encode("u32", ts[k])]])
              \o Encode("u32", d)) :
          ts \in SeqsUpTo({NatToBits(0), NatToBits(128)}, 2),
          d \in {NatToBits(1), NatToBits(128)}}
  \cup {Enc(17, "call_indirect", [index |-> v, reserved |-> b],
            Encode("u32", v) \o <<b>>) : v \in IndexValues, b \in {0, 1}}
  \cup {Enc(op, "memarg", [align_log2 |-> a, offset |-> o],
            Encode("u32", a) \o Encode("u32", o)) :
          op \in {40, 62}, a \in {NatToBits(2), NatToBits(128)},
          o \in {NatToBits(0), NatToBits(3), 0..31}}
  \cup {Enc(op, "u8", b, <<b>>) : op \in ReservedOpcodes, b \in {0, 1}}
  \cup {Enc(65, "s32", v, Encode("s32", v)) :
          v \in {IntToBits(32, -1), IntToBits(32, 64), {31}}}
  \cup {Enc(66, "s64", v, Encode("s64", v)) :
          v \in {IntToBits(64, -65), IntToBits(64, 5), {63}}}
  \cup {Enc(67, "f32", bs, bs) : bs \in {<<0, 0, 128, 63>>}}
  \cup {Enc(68, "f64", bs, bs) : bs \in {<<0, 0, 0, 0, 0, 0, 240, 63>>}}

\* bytes that are not an instruction: nothing, the proper prefixes of the
\* well-formed instructions, unknown opcodes and unknown block types
Prefixes(bs) == {SubSeq(bs, 1, k) : k \in 1..(Len(bs) - 1)}

UnknownOpcodes == {6, 18, 192, 208, 210, 252, 255}

Junk ==
  {<<>>, <<2, 0>>} \cup UNION {Prefixes(p.bytes) : p \in InstrPool}
    \cup {<<op>> \o t : op \in UnknownOpcodes, t \in Tails}

\* the instructions of the expressions
ExprPool ==
  {p \in InstrPool :
     \/ p.instr.opcode \in {1, 11}
     \/ p.instr.opcode = 2 /\ p.instr.imm = 64
     \/ p.instr.opcode = 65 /\ p.instr.imm = IntToBits(32, 64)}

\* the first and the second instruction of the constant expressions; ref.null
\* (d0 70) and ref.func (d2 00) are not in the table of Read<Instr>
ConstFirst ==
  {[instrs |-> <<p>>, junk |-> <<>>, allowed |-> (p.instr.opcode \in {35, 65, 66, 67, 68})] :
     p \in {q \in InstrPool :
              /\ q.instr.opcode \in {1, 32, 35, 65, 66, 67, 68}
              /\ q.instr.shape = "index" => q.instr.imm = NatToBits(3)}}
  \cup {[instrs |-> <<>>, junk |-> bs, allowed |-> TRUE] :
          bs \in {<<208, 112>>, <<210, 0>>}}

ConstSecond == {<<>>, <<11>>, <<1>>, <<11, 1>>, <<1, 11>>}

MaxInstrs == 4

GenInstr(kind, ps, junk, cx, cxlen) ==
  [kind |-> kind, instrs |-> [k \in 1..Len(ps) |-> ps[k].instr],
   lens |-> [k \in 1..Len(ps) |-> Len(ps[k].bytes)], junk |-> junk,
   cx |-> cx, cxlen |-> cxlen, bytes |-> Concat(ps) \o junk]

InstrInputs ==
  {GenInstr("instr", <<p>>, j, FALSE, 0) :
     p \in InstrPool, j \in {<<>>, <<255>>}}
  \cup {GenInstr("junk", <<>>, j, FALSE, 0) : j \in Junk}
  \cup {GenInstr("expr", ps, <<>>, FALSE, 0) :
          ps \in SeqsUpTo(ExprPool, MaxInstrs)}
  \cup {GenInstr("const", f.instrs, f.junk \o s,
                 f.allowed /\ Len(s) > 0 /\ s[1] = 11,
                 Len(Concat(f.instrs)) + Len(f.junk) + 1) :
          f \in ConstFirst, s \in ConstSecond}

NoExpr ==
  [started |-> FALSE, data |-> Span(0, 0), value |-> NoInstr, depth |-> 0,
   seen |-> <<>>, n |-> 0]

InitInstr ==
  /\ \E g \in InstrInputs :
       /\ input = g.bytes
       /\ gen = [kind |-> g.kind, instrs |-> g.instrs, lens |-> g.lens,
                 junk |-> g.junk, cx |-> g.cx, cxlen |-> g.cxlen]
  /\ data = Span(0, Len(input))
  /\ errs = <<>>
  /\ ctx = <<>>
  /\ last = NoLast
  /\ mod = [built |-> FALSE, context |-> NoContext]
  /\ iter = NoExpr

CanReadInstr == CanRead /\ ~iter.started

DoReadInstr ==
  /\ CanReadInstr
  /\ Apply(ReadInstr(Here), "ReadInstr", "instr", 0, 0, 0)

DoReadMemArg ==
  /\ CanReadInstr
  /\ Apply(ReadMemArg(Here), "ReadMemArg", "memarg", 0, 0, 0)

DoReadLimits ==
  /\ CanReadInstr
  /\ Apply(ReadLimits(Here), "ReadLimits", "limits", 0, 0, 0)

DoReadLocalDecl ==
  /\ CanReadInstr
  /\ Apply(ReadLocalDecl(Here), "ReadLocalDecl", "local decl", 0, 0, 0)

DoReadConstExpr ==
  /\ CanReadInstr
  /\ Apply(ReadConstExpr(Here), "ReadConstExpr", "const expr", 0, 0, 0)

MaxExprs == 2

\* the iterator after a step, with the instructions yielded so far
YieldInstr(it, seen, n) ==
  [started |-> TRUE, data |-> it.data, value |-> it.value,
   depth |-> it.depth, n |-> n,
   seen |-> IF InstrAtEnd(it) THEN seen ELSE Append(seen, it.value)]

ExprStep(p, seen, n) ==
  /\ iter' = YieldInstr(p[1], seen, n)
  /\ mod' = [mod EXCEPT !.context = p[2]]
  /\ errs' = p[3].errs
  /\ ctx' = p[3].ctx
  /\ data' = IF p[1].data = NullSpan THEN data ELSE p[1].data
  /\ UNCHANGED <<input, gen, last>>

\* ReadExpression(data, context).begin(), on the bytes not yet read; the
\* Context is the one of the expression before
BeginExpression ==
  /\ last.op = "none"
  /\ iter.n < MaxExprs
  /\ iter.started => InstrAtEnd(iter)
  /\ \E x \in {ReadExpression(data, mod.context)} :
     \E p \in {IF IterEmpty(x.it) THEN <<x.it, x.context, Here>>
               ELSE IncrementExpr(x.it, x.context, errs, ctx)} :
       ExprStep(p, <<>>, iter.n + 1)

\* ++it
AdvanceExpr ==
  /\ iter.started
  /\ ~InstrAtEnd(iter)
  /\ \E p \in {IncrementExpr(iter, mod.context, errs, ctx)} :
       ExprStep(p, iter.seen, iter.n)

NextInstr ==
  \/ DoReadInstr
  \/ DoReadMemArg
  \/ DoReadLimits
  \/ DoReadLocalDecl
  \/ DoReadConstExpr
  \/ BeginExpression
  \/ AdvanceExpr

SpecInstr == InitInstr /\ [][NextInstr]_vars

(***************************************************************************)
(* The text lexer (src/src/text/lex.cc).  A character is its code, and -1  *)
(* is what PeekChar returns at the end of the input.  A lexer function     *)
(* takes the cursor d and returns the token with the cursor after it.      *)
(***************************************************************************)
kCharClasses ==
  <<0,  0,  0, 0, 0, 0, 0, 0, 0, 0, 0, 0,  0,  0,  0,  0,  0,  0,  0,
    0,  0,  0, 0, 0, 0, 0, 0, 0, 0, 0, 0,  0,  0,  0,  1,  0,  1,  1,
    1,  1,  1, 0, 0, 1, 1, 0, 1, 1, 1, 13, 13, 13, 13, 13, 13, 13, 13,
    13, 13, 1, 0, 1, 1, 1, 1, 1, 5, 5, 5,  5,  5,  5,  1,  1,  1,  1,
    1,  1,  1, 1, 1, 1, 1, 1, 1, 1, 1, 1,  1,  1,  1,  1,  0,  1,  0,
    1,  1,  1, 7, 7, 7, 7, 7, 7, 3, 3, 3,  3,  3,  3,  3,  3,  3,  3,
    3,  3,  3, 3, 3, 3, 3, 3, 3, 3, 0, 1,  0,  1>>

\* the array has 257 elements: those without an initializer are zero
IsCharClass(c, bit) ==
  /\ c + 2 <= Len(kCharClasses)
  /\ (kCharClasses[c + 2] \div bit) % 2 = 1

IsDigit(c) == IsCharClass(c, 8)

IsHexDigit(c) == IsCharClass(c, 4)

IsReserved(c) == IsCharClass(c, 1)

PeekChar(d, offset) ==
  IF offset >= Size(d) THEN -1 ELSE input[d.b + offset + 1]

SkipChar(d) == remove_prefix(d, 1)

RECURSIVE ReadReservedChars(_)
ReadReservedChars(d) ==
  IF IsReserved(PeekChar(d, 0))
  THEN Then(ReadReservedChars(SkipChar(d)), LAMBDA r :
         [count |-> r.count + 1, d |-> r.d])
  ELSE [count |-> 0, d |-> d]

NoTrailingReservedChars(d) ==
  Then(ReadReservedChars(d), LAMBDA r : [ok |-> r.count = 0, d |-> r.d])

ReadChar(d) ==
  [c |-> PeekChar(d, 0), d |-> IF PeekChar(d, 0) # -1 THEN SkipChar(d) ELSE d]

MatchChar(d, c) ==
  IF PeekChar(d, 0) = c THEN [ok |-> TRUE, d |-> SkipChar(d)]
  ELSE [ok |-> FALSE, d |-> d]

\* '+' is 43, '-' is 45
MatchSign(d) ==
  IF MatchChar(d, 43).ok THEN [sign |-> "Plus", d |-> SkipChar(d)]
  ELSE IF MatchChar(d, 45).ok THEN [sign |-> "Minus", d |-> SkipChar(d)]
  ELSE [sign |-> "None", d |-> d]

\* every character of sv matched in turn, or the cursor reset
MatchString(d, sv) ==
  IF \A k \in 1..Len(sv) : PeekChar(d, k - 1) = sv[k]
  THEN [ok |-> TRUE, d |-> remove_prefix(d, Len(sv))]
  ELSE [ok |-> FALSE, d |-> d]

\* a loop of MatchNum that takes a '_' after the last digit too
RECURSIVE MatchNumLoopLax(_, _, _, _)
MatchNumLoopLax(d, ok, has_underscores, bit) ==
  IF IsCharClass(PeekChar(d, 0), bit)
  THEN IF PeekChar(d, 1) = 95
       THEN MatchNumLoopLax(remove_prefix(d, 2), TRUE, TRUE, bit)
       ELSE MatchNumLoopLax(SkipChar(d), TRUE, has_underscores, bit)
  ELSE [ok |-> ok, d |-> d, has_underscores |-> has_underscores]

\* the loop of MatchNum (bit 8) and of MatchHexNum (bit 4); '_' is 95
RECURSIVE MatchNumLoop(_, _, _, _)
MatchNumLoop(d, ok, has_underscores, bit) ==
  IF IsCharClass(PeekChar(d, 0), bit)
  THEN IF PeekChar(d, 1) = 95
       THEN MatchNumLoop(remove_prefix(d, 2), FALSE, TRUE, bit)
       ELSE MatchNumLoop(SkipChar(d), TRUE, has_underscores, bit)
  ELSE [ok |-> ok, d |-> d, has_underscores |-> has_underscores]

\* has_underscores is set through the reference also when the match fails
MatchNum(d, has_underscores) ==
  Then(MatchNumLoop(d, FALSE, has_underscores, 8), LAMBDA r :
    IF r.ok THEN r ELSE [r EXCEPT !.d = d])

MatchHexNum(d, has_underscores) ==
  Then(MatchNumLoop(d, FALSE, has_underscores, 4), LAMBDA r :
    IF r.ok THEN r ELSE [r EXCEPT !.d = d])

\* Token(loc, type, info) returned with the cursor d
Token(b, d, type, info) ==
  [tok |-> [type |-> type, loc |-> Span(b, d.b), info |-> info], d |-> d]

LexReserved(d) ==
  Then(ReadReservedChars(d), LAMBDA r : Token(d.b, r.d, "Reserved", NoVal))

\* the cursor is on "(@": no character is skipped before the reserved ones
LexAnnotation(d) ==
  Then(ReadReservedChars(d), LAMBDA r : Token(d.b, r.d, "LparAnn", NoVal))

\* a comment closed by the first ";)", whatever was opened before it
RECURSIVE LexBlockCommentFlatLoop(_, _)
LexBlockCommentFlatLoop(orig, d) ==
  Then(ReadChar(d), LAMBDA r :
    IF r.c = -1 THEN Token(orig.b, r.d, "InvalidBlockComment", NoVal)
    ELSE IF r.c = 59 /\ MatchChar(r.d, 41).ok
    THEN Token(orig.b, SkipChar(r.d), "BlockComment", NoVal)
    ELSE IF r.c = 40 /\ MatchChar(r.d, 59).ok
    THEN LexBlockCommentFlatLoop(orig, SkipChar(r.d))
    ELSE LexBlockCommentFlatLoop(orig, r.d))

LexBlockCommentFlat(d) == LexBlockCommentFlatLoop(d, d)

\* the loop of LexBlockComment; ';' is 59, ')' is 41, '(' is 40
RECURSIVE LexBlockCommentLoop(_, _, _)
LexBlockCommentLoop(orig, d, nesting) ==
  Then(ReadChar(d), LAMBDA r :
    IF r.c = -1 THEN Token(orig.b, r.d, "InvalidBlockComment", NoVal)
    ELSE IF r.c = 59
    THEN IF MatchChar(r.d, 41).ok
         THEN IF nesting - 1 = 0
              THEN Token(orig.b, SkipChar(r.d), "BlockComment", NoVal)
              ELSE LexBlockCommentLoop(orig, SkipChar(r.d), nesting - 1)
         ELSE LexBlockCommentLoop(orig, r.d, nesting)
    ELSE IF r.c = 40
    THEN IF MatchChar(r.d, 59).ok
         THEN LexBlockCommentLoop(orig, SkipChar(r.d), nesting + 1)
         ELSE LexBlockCommentLoop(orig, r.d, nesting)
    ELSE LexBlockCommentLoop(orig, r.d, nesting))

LexBlockComment(d) == LexBlockCommentLoop(d, d, 0)

\* the cursor is on '$'
LexId(d) ==
  Then(NoTrailingReservedChars(SkipChar(d)), LAMBDA r :
    IF r.ok THEN Token(d.b, r.d, "Reserved", NoVal)
    ELSE Token(d.b, r.d, "Id", NoVal))

\* a line comment that the end of the input ends as a newline does
RECURSIVE LexLineCommentOpenLoop(_, _)
LexLineCommentOpenLoop(orig, d) ==
  Then(ReadChar(d), LAMBDA r :
    IF r.c \in {-1, 10} THEN Token(orig.b, r.d, "LineComment", NoVal)
    ELSE LexLineCommentOpenLoop(orig, r.d))

LexLineCommentOpen(d) == LexLineCommentOpenLoop(d, d)

\* '\n' is 10
RECURSIVE LexLineCommentLoop(_, _)
LexLineCommentLoop(orig, d) ==
  Then(ReadChar(d), LAMBDA r :
    IF r.c = -1 THEN Token(orig.b, r.d, "InvalidLineComment", NoVal)
    ELSE IF r.c = 10 THEN Token(orig.b, r.d, "LineComment", NoVal)
    ELSE LexLineCommentLoop(orig, r.d))

LexLineComment(d) == LexLineCommentLoop(d, d)

\* "inf" is <<105, 110, 102>>; the Reserved token of a failed match starts
\* where the cursor is, not where the guard was
LexInf(d) ==
  Then(MatchSign(d), LAMBDA s :
  Then(MatchString(s.d, <<105, 110, 102>>), LAMBDA m :
    IF ~m.ok THEN LexReserved(m.d)
    ELSE Then(NoTrailingReservedChars(m.d), LAMBDA t :
           IF t.ok
           THEN Token(d.b, t.d, "Float",
                      [kind |-> "Infinity", sign |-> s.sign])
           ELSE LexReserved(t.d))))

\* "nan" is <<110, 97, 110>>, ':' is 58, "0x" is <<48, 120>>; as in LexInf
\* the Reserved token of a failed match starts where the cursor is
LexNan(d) ==
  Then(MatchSign(d), LAMBDA s :
  Then(MatchString(s.d, <<110, 97, 110>>), LAMBDA m :
    IF ~m.ok THEN LexReserved(m.d)
    ELSE Then(MatchChar(m.d, 58), LAMBDA c :
      IF c.ok
      THEN Then(MatchString(c.d, <<48, 120>>), LAMBDA x :
             IF ~x.ok THEN LexReserved(x.d)
             ELSE Then(MatchHexNum(x.d, FALSE), LAMBDA h :
               IF ~h.ok THEN LexReserved(h.d)
               ELSE Then(NoTrailingReservedChars(h.d), LAMBDA t :
                 IF t.ok
                 THEN Token(d.b, t.d, "Float",
                            [kind |-> "NanPayload", sign |-> s.sign,
                             has_underscores |-> h.has_underscores])
                 ELSE LexReserved(t.d))))
      ELSE Then(NoTrailingReservedChars(c.d), LAMBDA t :
             IF t.ok
             THEN Token(d.b, t.d, "Float", [kind |-> "Nan", sign |-> s.sign])
             ELSE LexReserved(t.d)))))

\* the digits after the sign, the fraction after '.', the exponent after 'e'
\* or 'E' (hex: 'p' or 'P'), then no trailing reserved character; bit is the
\* class of the digits of the mantissa, exps the exponent characters
LexNumberOf(d, tt, bit, exps, kind, s, start) ==
  Then(MatchNumLoop(start, FALSE, FALSE, bit), LAMBDA n :
    IF ~n.ok THEN LexReserved(d)
    ELSE Then(MatchChar(n.d, 46), LAMBDA dot :
      Then(IF dot.ok /\ IsCharClass(PeekChar(dot.d, 0), bit)
           THEN MatchNumLoop(dot.d, FALSE, n.has_underscores, bit)
           ELSE [ok |-> TRUE, d |-> dot.d,
                 has_underscores |-> n.has_underscores], LAMBDA f :
        IF ~f.ok THEN LexReserved(d)
        ELSE Then(PeekChar(f.d, 0) \in exps, LAMBDA e :
          Then(IF e
               THEN MatchNum(MatchSign(SkipChar(f.d)).d, f.has_underscores)
               ELSE [ok |-> TRUE, d |-> f.d,
                     has_underscores |-> f.has_underscores], LAMBDA x :
            IF ~x.ok THEN LexReserved(d)
            ELSE Then(NoTrailingReservedChars(x.d), LAMBDA t :
              IF t.ok
              THEN Token(d.b, t.d, IF dot.ok \/ e THEN "Float" ELSE tt,
                         [kind |-> kind, sign |-> s.sign,
                          has_underscores |-> x.has_underscores])
              ELSE LexReserved(d)))))))

\* '.' is 46, 'e' is 101, 'E' is 69
LexNumber(d, tt) ==
  Then(MatchSign(d), LAMBDA s :
    LexNumberOf(d, tt, 8, {101, 69}, "Number", s, s.d))

\* 'p' is 112, 'P' is 80; the result of MatchString "0x" is not looked at
LexHexNumber(d, tt) ==
  Then(MatchSign(d), LAMBDA s :
    LexNumberOf(d, tt, 4, {112, 80}, "HexNumber", s,
                MatchString(s.d, <<48, 120>>).d))

\* a string that ends at the first '"' and has no escapes
RECURSIVE LexTextRawLoop(_, _, _)
LexTextRawLoop(orig, d, byte_size) ==
  Then(ReadChar(d), LAMBDA r :
    IF r.c \in {-1, 10} THEN Token(orig.b, r.d, "InvalidText", NoVal)
    ELSE IF r.c = 34
    THEN Token(orig.b, r.d, "Text",
               [text |-> Span(orig.b, r.d.b), byte_size |-> byte_size])
    ELSE LexTextRawLoop(orig, r.d, byte_size + 1))

LexTextRaw(d) == LexTextRawLoop(d, SkipChar(d), 0)

\* the loop of LexText; '"' is 34, '\' is 92, the escapes are t n r " ' \
RECURSIVE LexTextLoop(_, _, _, _)
LexTextLoop(orig, d, has_error, byte_size) ==
  Then(ReadChar(d), LAMBDA r :
    IF r.c = -1 THEN Token(orig.b, r.d, "InvalidText", NoVal)
    ELSE IF r.c = 10 THEN LexTextLoop(orig, r.d, TRUE, byte_size)
    ELSE IF r.c = 34
    THEN IF has_error THEN Token(orig.b, r.d, "InvalidText", NoVal)
         ELSE Token(orig.b, r.d, "Text",
                    [text |-> Span(orig.b, r.d.b), byte_size |-> byte_size])
    ELSE IF r.c = 92
    THEN Then(ReadChar(r.d), LAMBDA q :
           IF q.c \in {116, 110, 114, 34, 39, 92}
           THEN LexTextLoop(orig, q.d, has_error, byte_size + 1)
           ELSE IF IsHexDigit(q.c) /\ IsHexDigit(PeekChar(q.d, 0))
           THEN LexTextLoop(orig, SkipChar(q.d), has_error, byte_size + 1)
           ELSE LexTextLoop(orig, q.d, TRUE, byte_size))
    ELSE LexTextLoop(orig, r.d, has_error, byte_size + 1))

LexText(d) ==
  LexTextLoop(d, MatchChar(d, 34).d, FALSE, 0)

\* ' ' is 32, '\t' is 9, '\r' is 13, '\n' is 10
RECURSIVE LexWhitespaceLoop(_, _)
LexWhitespaceLoop(orig, d) ==
  IF PeekChar(d, 0) \in {32, 9, 13, 10}
  THEN LexWhitespaceLoop(orig, SkipChar(d))
  ELSE Token(orig.b, d, "Whitespace", NoVal)

LexWhitespace(d) == LexWhitespaceLoop(d, d)

\* the overloads of LexKeyword differ in what the token carries (info)
LexKeyword(d, sv, tt, info) ==
  Then(MatchString(d, sv), LAMBDA m :
    IF ~m.ok THEN LexReserved(d)
    ELSE Then(NoTrailingReservedChars(m.d), LAMBDA t :
           IF t.ok THEN Token(d.b, t.d, tt, info) ELSE LexReserved(d)))

\* the keywords of keywords-inl.cc the model has: the string LexKeyword is
\* called with, the type of the token and what it carries
Keywords ==
  <<
    [sv |-> <<105, 102>>, type |-> "BlockInstr",
     info |-> [opcode |-> "If", features |-> "0"]],  \* 1: "if" (line 4)
    [sv |-> <<98, 114>>, type |-> "VarInstr",
     info |-> [opcode |-> "Br", features |-> "0"]],  \* 2: "br" (line 5)
    [sv |-> <<105, 51, 50>>, type |-> "ValueType",
     info |-> [opcode |-> "ValueType::I32", features |-> "0"]],  \* 3: "i32" (line 14)
    [sv |-> <<102, 51, 50>>, type |-> "ValueType",
     info |-> [opcode |-> "ValueType::F32", features |-> "0"]],  \* 4: "f32" (line 13)
    [sv |-> <<105, 51, 50, 46, 97, 100, 100>>, type |-> "BareInstr",
     info |-> [opcode |-> "I32Add", features |-> "0"]],  \* 5: "i32.add" (line 137)
    [sv |-> <<105, 110, 102>>, type |-> "Float",
     info |-> [opcode |-> "LiteralKind::Infinity", features |-> "0"]],  \* 6: "inf" (line 1455)
    [sv |-> <<110, 97, 110>>, type |-> "Float",
     info |-> [opcode |-> "LiteralKind::Nan", features |-> "0"]],  \* 7: "nan" (line 1500)
    [sv |-> <<110, 97, 110, 58, 99, 97, 110, 111, 110, 105, 99, 97, 108>>, type |-> "NanCanonical",
     info |-> [opcode |-> "", features |-> "0"]],  \* 8: "nan:canonical" (line 1505)
    [sv |-> <<105, 51, 50, 46, 114, 101, 105, 110, 116, 101, 114, 112, 114, 101, 116, 47, 102, 51, 50>>, type |-> "BareInstr",
     info |-> [opcode |-> "I32ReinterpretF32", features |-> "0"]],  \* 9: "i32.reinterpret/f32" (line 153)
    [sv |-> <<105, 51, 50, 46, 114, 101, 105, 110, 116, 101, 114, 112, 114, 101, 116, 95, 102, 51, 50>>, type |-> "BareInstr",
     info |-> [opcode |-> "I32ReinterpretF32", features |-> "0"]],  \* 10: "i32.reinterpret_f32" (line 154)
    [sv |-> <<102, 51, 50, 46, 114, 101, 105, 110, 116, 101, 114, 112, 114, 101, 116, 47, 105, 51, 50>>, type |-> "BareInstr",
     info |-> [opcode |-> "F32ReinterpretI32", features |-> "0"]],  \* 11: "f32.reinterpret/i32" (line 160)
    [sv |-> <<102, 51, 50, 46, 114, 101, 105, 110, 116, 101, 114, 112, 114, 101, 116, 95, 105, 51, 50>>, type |-> "BareInstr",
     info |-> [opcode |-> "F32ReinterpretI32", features |-> "0"]],  \* 12: "f32.reinterpret_i32" (line 161)
    [sv |-> <<105, 51, 50, 46, 116, 114, 117, 110, 99, 95, 115, 47, 102, 51, 50>>, type |-> "BareInstr",
     info |-> [opcode |-> "I32TruncF32S", features |-> "0"]],  \* 13: "i32.trunc_s/f32" (line 361)
    [sv |-> <<105, 51, 50, 46, 116, 114, 117, 110, 99, 95, 117, 47, 102, 51, 50>>, type |-> "BareInstr",
     info |-> [opcode |-> "I32TruncF32U", features |-> "0"]],  \* 14: "i32.trunc_u/f32" (line 362)
    [sv |-> <<105, 51, 50, 46, 116, 114, 117, 110, 99, 95, 115, 47, 102, 54, 52>>, type |-> "BareInstr",
     info |-> [opcode |-> "I32TruncF64S", features |-> "0"]],  \* 15: "i32.trunc_s/f64" (line 368)
    [sv |-> <<105, 51, 50, 46, 116, 114, 117, 110, 99, 95, 117, 47, 102, 54, 52>>, type |-> "BareInstr",
     info |-> [opcode |-> "I32TruncF64U", features |-> "0"]],  \* 16: "i32.trunc_u/f64" (line 369)
    [sv |-> <<105, 51, 50, 46, 116, 114, 117, 110, 99, 95, 102, 51, 50, 95, 115>>, type |-> "BareInstr",
     info |-> [opcode |-> "I32TruncF32S", features |-> "0"]],  \* 17: "i32.trunc_f32_s" (line 394)
    [sv |-> <<105, 51, 50, 46, 116, 114, 117, 110, 99, 95, 102, 51, 50, 95, 117>>, type |-> "BareInstr",
     info |-> [opcode |-> "I32TruncF32U", features |-> "0"]],  \* 18: "i32.trunc_f32_u" (line 420)
    [sv |-> <<105, 51, 50, 46, 116, 114, 117, 110, 99, 95, 102, 54, 52, 95, 115>>, type |-> "BareInstr",
     info |-> [opcode |-> "I32TruncF64S", features |-> "0"]],  \* 19: "i32.trunc_f64_s" (line 395)
    [sv |-> <<105, 51, 50, 46, 116, 114, 117, 110, 99, 95, 102, 54, 52, 95, 117>>, type |-> "BareInstr",
     info |-> [opcode |-> "I32TruncF64U", features |-> "0"]],  \* 20: "i32.trunc_f64_u" (line 421)
    [sv |-> <<105, 51, 50, 46, 116, 114, 117, 110, 99, 95, 115, 58, 115, 97, 116, 47, 102, 51, 50>>, type |-> "BareInstr",
     info |-> [opcode |-> "I32TruncSatF32S", features |-> "SaturatingFloatToInt"]],  \* 21: "i32.trunc_s:sat/f32" (line 403)
    [sv |-> <<105, 51, 50, 46, 116, 114, 117, 110, 99, 95, 117, 58, 115, 97, 116, 47, 102, 51, 50>>, type |-> "BareInstr",
     info |-> [opcode |-> "I32TruncSatF32U", features |-> "SaturatingFloatToInt"]],  \* 22: "i32.trunc_u:sat/f32" (line 404)
    [sv |-> <<105, 51, 50, 46, 116, 114, 117, 110, 99, 95, 115, 58, 115, 97, 116, 47, 102, 54, 52>>, type |-> "BareInstr",
     info |-> [opcode |-> "I32TruncSatF64S", features |-> "SaturatingFloatToInt"]],  \* 23: "i32.trunc_s:sat/f64" (line 410)
    [sv |-> <<105, 51, 50, 46, 116, 114, 117, 110, 99, 95, 117, 58, 115, 97, 116, 47, 102, 54, 52>>, type |-> "BareInstr",
     info |-> [opcode |-> "I32TruncSatF64U", features |-> "SaturatingFloatToInt"]],  \* 24: "i32.trunc_u:sat/f64" (line 411)
    [sv |-> <<105, 51, 50, 46, 116, 114, 117, 110, 99, 95, 115, 97, 116, 95, 102, 51, 50, 95, 115>>, type |-> "BareInstr",
     info |-> [opcode |-> "I32TruncSatF32S", features |-> "SaturatingFloatToInt"]],  \* 25: "i32.trunc_sat_f32_s" (line 377)
    [sv |-> <<105, 51, 50, 46, 116, 114, 117, 110, 99, 95, 115, 97, 116, 95, 102, 51, 50, 95, 117>>, type |-> "BareInstr",
     info |-> [opcode |-> "I32TruncSatF32U", features |-> "SaturatingFloatToInt"]],  \* 26: "i32.trunc_sat_f32_u" (line 384)
    [sv |-> <<105, 51, 50, 46, 116, 114, 117, 110, 99, 95, 115, 97, 116, 95, 102, 54, 52, 95, 115>>, type |-> "BareInstr",
     info |-> [opcode |-> "I32TruncSatF64S", features |-> "SaturatingFloatToInt"]],  \* 27: "i32.trunc_sat_f64_s" (line 378)
    [sv |-> <<105, 51, 50, 46, 116, 114, 117, 110, 99, 95, 115, 97, 116, 95, 102, 54, 52, 95, 117>>, type |-> "BareInstr",
     info |-> [opcode |-> "I32TruncSatF64U", features |-> "SaturatingFloatToInt"]]  \* 28: "i32.trunc_sat_f64_u" (line 385)
  >>

NoKeyword == [kind |-> "none", id |-> 0]

\* a dispatch that knows the spellings without '/' only ('/' is 47)
KeywordDispatchCanonical(d) ==
  LET ids == {k \in 1..Len(Keywords) :
                /\ \A j \in 1..Len(Keywords[k].sv) : Keywords[k].sv[j] # 47
                /\ MatchString(d, Keywords[k].sv).ok}
  IN  IF ids = {} THEN NoKeyword
      ELSE [kind |-> "LexKeyword",
            id |-> CHOOSE k \in ids : \A j \in ids :
                     Len(Keywords[j].sv) <= Len(Keywords[k].sv)]

\* the switch of keywords-inl.cc, with the cases of the keywords above; a
\* case of another keyword ends like a case that breaks
KeywordDispatch(d) ==
  IF PeekChar(d, 2) = 50 THEN  \* '2'
    IF PeekChar(d, 3) = 46 THEN  \* '.'
      IF PeekChar(d, 6) = 100 THEN  \* 'd'
        IF PeekChar(d, 5) = 100 THEN  \* 'd'
          IF PeekChar(d, 0) = 105 THEN  \* 'i'
            [kind |-> "LexKeyword", id |-> 5]  \* "i32.add"
          ELSE NoKeyword
        ELSE NoKeyword
      ELSE IF PeekChar(d, 6) = 105 THEN  \* 'i'
        IF PeekChar(d, 8) = 116 THEN  \* 't'
          IF PeekChar(d, 16) = 102 THEN  \* 'f'
            IF PeekChar(d, 15) = 47 THEN  \* '/'
              [kind |-> "LexKeyword", id |-> 9]  \* "i32.reinterpret/f32"
            ELSE IF PeekChar(d, 15) = 95 THEN  \* '_'
              [kind |-> "LexKeyword", id |-> 10]  \* "i32.reinterpret_f32"
            ELSE NoKeyword
          ELSE IF PeekChar(d, 16) = 105 THEN  \* 'i'
            IF PeekChar(d, 15) = 47 THEN  \* '/'
              [kind |-> "LexKeyword", id |-> 11]  \* "f32.reinterpret/i32"
            ELSE IF PeekChar(d, 15) = 95 THEN  \* '_'
              [kind |-> "LexKeyword", id |-> 12]  \* "f32.reinterpret_i32"
            ELSE NoKeyword
          ELSE NoKeyword
        ELSE NoKeyword
      ELSE IF PeekChar(d, 6) = 117 THEN  \* 'u'
        IF PeekChar(d, 9) = 95 THEN  \* '_'
          IF PeekChar(d, 14) = 50 THEN  \* '2'
            IF PeekChar(d, 10) = 115 THEN  \* 's'
              [kind |-> "LexKeyword", id |-> 13]  \* "i32.trunc_s/f32"
            ELSE IF PeekChar(d, 10) = 117 THEN  \* 'u'
              [kind |-> "LexKeyword", id |-> 14]  \* "i32.trunc_u/f32"
            ELSE NoKeyword
          ELSE IF PeekChar(d, 14) = 52 THEN  \* '4'
            IF PeekChar(d, 10) = 115 THEN  \* 's'
              [kind |-> "LexKeyword", id |-> 15]  \* "i32.trunc_s/f64"
            ELSE IF PeekChar(d, 10) = 117 THEN  \* 'u'
              [kind |-> "LexKeyword", id |-> 16]  \* "i32.trunc_u/f64"
            ELSE NoKeyword
          ELSE IF PeekChar(d, 14) = 102 THEN  \* 'f'
            IF PeekChar(d, 18) = 115 THEN  \* 's'
              IF PeekChar(d, 16) = 50 THEN  \* '2'
                [kind |-> "LexKeyword", id |-> 25]  \* "i32.trunc_sat_f32_s"
              ELSE IF PeekChar(d, 16) = 52 THEN  \* '4'
                [kind |-> "LexKeyword", id |-> 27]  \* "i32.trunc_sat_f64_s"
              ELSE NoKeyword
            ELSE IF PeekChar(d, 18) = 117 THEN  \* 'u'
              IF PeekChar(d, 16) = 50 THEN  \* '2'
                [kind |-> "LexKeyword", id |-> 26]  \* "i32.trunc_sat_f32_u"
              ELSE IF PeekChar(d, 16) = 52 THEN  \* '4'
                [kind |-> "LexKeyword", id |-> 28]  \* "i32.trunc_sat_f64_u"
              ELSE NoKeyword
            ELSE NoKeyword
          ELSE IF PeekChar(d, 14) = 115 THEN  \* 's'
            IF PeekChar(d, 12) = 50 THEN  \* '2'
              [kind |-> "LexKeyword", id |-> 17]  \* "i32.trunc_f32_s"
            ELSE IF PeekChar(d, 12) = 52 THEN  \* '4'
              [kind |-> "LexKeyword", id |-> 19]  \* "i32.trunc_f64_s"
            ELSE NoKeyword
          ELSE IF PeekChar(d, 14) = 116 THEN  \* 't'
            IF PeekChar(d, 18) = 50 THEN  \* '2'
              IF PeekChar(d, 10) = 115 THEN  \* 's'
                [kind |-> "LexKeyword", id |-> 21]  \* "i32.trunc_s:sat/f32"
              ELSE IF PeekChar(d, 10) = 117 THEN  \* 'u'
                [kind |-> "LexKeyword", id |-> 22]  \* "i32.trunc_u:sat/f32"
              ELSE NoKeyword
            ELSE IF PeekChar(d, 18) = 52 THEN  \* '4'
              IF PeekChar(d, 10) = 115 THEN  \* 's'
                [kind |-> "LexKeyword", id |-> 23]  \* "i32.trunc_s:sat/f64"
              ELSE IF PeekChar(d, 10) = 117 THEN  \* 'u'
                [kind |-> "LexKeyword", id |-> 24]  \* "i32.trunc_u:sat/f64"
              ELSE NoKeyword
            ELSE NoKeyword
          ELSE IF PeekChar(d, 14) = 117 THEN  \* 'u'
            IF PeekChar(d, 12) = 50 THEN  \* '2'
              [kind |-> "LexKeyword", id |-> 18]  \* "i32.trunc_f32_u"
            ELSE IF PeekChar(d, 12) = 52 THEN  \* '4'
              [kind |-> "LexKeyword", id |-> 20]  \* "i32.trunc_f64_u"
            ELSE NoKeyword
          ELSE NoKeyword
        ELSE NoKeyword
      ELSE NoKeyword
    ELSE IF PeekChar(d, 3) \in {56, 120} THEN NoKeyword
    ELSE
      IF PeekChar(d, 0) = 102 THEN  \* 'f'
        [kind |-> "LexKeyword", id |-> 4]  \* "f32"
      ELSE IF PeekChar(d, 0) = 105 THEN  \* 'i'
        [kind |-> "LexKeyword", id |-> 3]  \* "i32"
      ELSE NoKeyword
  ELSE IF PeekChar(d, 2) = 102 THEN  \* 'f'
    IF PeekChar(d, 3) \in {46, 115} THEN NoKeyword
    ELSE
      [kind |-> "LexKeyword", id |-> 6]  \* "inf"
  ELSE IF PeekChar(d, 2) = 110 THEN  \* 'n'
    IF PeekChar(d, 3) = 58 THEN  \* ':'
      IF PeekChar(d, 6) = 110 THEN  \* 'n'
        [kind |-> "LexKeyword", id |-> 8]  \* "nan:canonical"
      ELSE IF PeekChar(d, 6) \in {105} THEN NoKeyword
      ELSE
        [kind |-> "LexNan", id |-> 0]  \* "LexNan"
    ELSE IF PeekChar(d, 3) \in {97, 99, 114} THEN NoKeyword
    ELSE
      [kind |-> "LexKeyword", id |-> 7]  \* "nan"
  ELSE IF PeekChar(d, 2) \in {52, 54, 95, 97, 98, 99, 100, 101, 103, 105, 108, 109, 111, 112, 114, 115, 116, 118, 120, 121} THEN NoKeyword
  ELSE
    IF PeekChar(d, 1) = 102 THEN  \* 'f'
      [kind |-> "LexKeyword", id |-> 1]  \* "if"
    ELSE IF PeekChar(d, 1) = 114 THEN  \* 'r'
      [kind |-> "LexKeyword", id |-> 2]  \* "br"
    ELSE NoKeyword

\* a keyword whose test of the trailing characters is left out
LexKeywordPrefix(d, sv, tt, info) ==
  Then(MatchString(d, sv), LAMBDA m :
    IF ~m.ok THEN LexReserved(d) ELSE Token(d.b, m.d, tt, info))

\* the default case of Lex: the keywords, then a reserved run or one
\* invalid character
LexDefault(d) ==
  Then(KeywordDispatch(d), LAMBDA k :
    IF k.kind = "LexKeyword"
    THEN LexKeyword(d, Keywords[k.id].sv, Keywords[k.id].type,
                    Keywords[k.id].info)
    ELSE IF k.kind = "LexNan" THEN LexNan(d)
    ELSE IF IsReserved(PeekChar(d, 0)) THEN LexReserved(d)
    ELSE Token(d.b, SkipChar(d), "InvalidChar", NoVal))

\* '(' 40, ')' 41, ';' 59, '@' 64, '"' 34, '+' 43, '-' 45, '$' 36,
\* 'i' 105, 'n' 110, '0' 48 .. '9' 57
Lex(d) ==
  Then(PeekChar(d, 0), LAMBDA c :
    IF c = -1 THEN Token(d.b, d, "Eof", NoVal)
    ELSE IF c = 40
    THEN IF MatchString(d, <<40, 59>>).ok THEN LexBlockComment(d)
         ELSE IF MatchString(d, <<40, 64>>).ok THEN LexAnnotation(d)
         ELSE Token(d.b, SkipChar(d), "Lpar", NoVal)
    ELSE IF c = 41 THEN Token(d.b, SkipChar(d), "Rpar", NoVal)
    ELSE IF c = 59
    THEN IF MatchString(d, <<59, 59>>).ok THEN LexLineComment(d)
         ELSE Token(d.b, SkipChar(d), "InvalidChar", NoVal)
    ELSE IF c \in {32, 9, 13, 10} THEN LexWhitespace(d)
    ELSE IF c = 34 THEN LexText(d)
    ELSE IF c \in {43, 45}
    THEN IF PeekChar(d, 1) = 105 THEN LexInf(d)
         ELSE IF PeekChar(d, 1) = 110 THEN LexNan(d)
         ELSE IF PeekChar(d, 1) = 48
         THEN IF MatchString(SkipChar(d), <<48, 120>>).ok
              THEN LexHexNumber(d, "Int") ELSE LexNumber(d, "Int")
         ELSE IF PeekChar(d, 1) \in 49..57 THEN LexNumber(d, "Int")
         ELSE LexReserved(d)
    ELSE IF c = 48
    THEN IF MatchString(d, <<48, 120>>).ok
         THEN LexHexNumber(d, "Nat") ELSE LexNumber(d, "Nat")
    ELSE IF c \in 49..57 THEN LexNumber(d, "Nat")
    ELSE IF c = 36 THEN LexId(d)
    ELSE LexDefault(d))

\* the types of the tokens that LexNoWhitespace does not return
SkippedTypes == {"BlockComment", "LineComment", "Whitespace"}

\* a variant that skips the whitespace and returns the comments
RECURSIVE LexNoWhitespaceOnly(_)
LexNoWhitespaceOnly(d) ==
  Then(Lex(d), LAMBDA r :
    IF r.tok.type = "Whitespace" THEN LexNoWhitespaceOnly(r.d) ELSE r)

RECURSIVE LexNoWhitespace(_)
LexNoWhitespace(d) ==
  Then(Lex(d), LAMBDA r :
    IF r.tok.type \in SkippedTypes THEN LexNoWhitespace(r.d) ELSE r)

(***************************************************************************)
(* The inputs of the lexer and its operations (SpecLex): Lex called on the *)
(* cursor MaxLex times at most, Lex called on the characters of the        *)
(* location of the token returned last, and LexNoWhitespace called on the  *)
(* cursor.                                                                 *)
(***************************************************************************)
MaxLex == 3

MaxComment == 6

MaxText == 3

\* a legacy spelling and the canonical spelling of the same instruction, as
\* indices of Keywords
SpellingPairs ==
  {<<9, 10>>, <<11, 12>>, <<13, 17>>, <<14, 18>>, <<15, 19>>, <<16, 20>>,
   <<21, 25>>, <<22, 26>>, <<23, 27>>, <<24, 28>>}

\* what follows a keyword: nothing, "x", " ", ")", ":x"
Suffixes == {<<>>, <<120>>, <<32>>, <<41>>, <<58, 120>>}

\* ( ; )
CommentAlphabet == {40, 59, 41}

\* ; a, the newline and the space
LineAlphabet == {59, 97, 10, 32}

\* " \ n 4 g and the newline
StringAlphabet == {34, 92, 110, 52, 103, 10}

\* + 0 1
NumberFirst == {43, 48, 49}

\* + 0 1 _ . e x p
NumberAlphabet == {43, 48, 49, 95, 46, 101, 120, 112}

\* ( ) ; @ + i n 0 and the space
TextAlphabet == {40, 41, 59, 64, 43, 105, 110, 48, 32}

Crafted ==
  {
    <<43, 102>>,  \* +f
    <<102, 51, 50, 46, 120>>,  \* f32.x
    <<34, 120, 34, 32, 34>>,  \* "x" "
    <<40, 59, 97, 59>>,  \* (;a;
    <<40, 59, 97, 40, 59, 98, 59, 41, 99, 59, 41, 100>>,  \* (;a(;b;)c;)d
    <<32, 40, 59, 32, 59, 41, 32, 59, 59, 99, 10, 32, 105, 102>>,  \*  (; ;) ;;c\n if
    <<34, 97, 92, 52, 102, 98, 92, 116, 34>>,  \* "a\4fb\t"
    <<45, 105, 120>>,  \* -ix
    <<110, 97, 110, 58, 102, 111, 111>>,  \* nan:foo
    <<40, 64, 97, 41>>,  \* (@a)
    <<40, 64, 97, 32, 98>>,  \* (@a b
    <<49, 69, 53>>,  \* 1E5
    <<48, 120, 49, 80, 45, 53>>,  \* 0x1P-5
    <<45, 48, 120, 49, 102>>,  \* -0x1f
    <<49, 101, 43, 49, 95, 48>>,  \* 1e+1_0
    <<48, 120, 49, 101, 53>>,  \* 0x1e5
    <<48, 120, 49, 95, 102, 46, 97, 95, 98, 112, 49, 95, 48>>,  \* 0x1_f.a_bp1_0
    <<49, 46, 53, 95>>,  \* 1.5_
    <<49, 46, 95, 53>>,  \* 1._5
    <<34, 92, 39, 92, 92, 92, 116, 92, 114, 34>>,  \* "\\'\\\\\\t\\r"
    <<34, 92, 102, 70, 34>>,  \* "\\fF"
    <<59, 59, 10>>,  \* ;;\n
    <<59, 97>>,  \* ;a
    <<43, 105, 110, 102>>,  \* +inf
    <<43, 105, 110, 102, 120>>,  \* +infx
    <<45, 105, 110, 102>>,  \* -inf
    <<43, 110, 97, 110>>,  \* +nan
    <<45, 110, 97, 110, 120>>,  \* -nanx
    <<43, 110, 97, 110, 58, 48, 120, 49, 102>>,  \* +nan:0x1f
    <<110, 97, 110, 58, 48, 120, 49, 95, 102>>,  \* nan:0x1_f
    <<110, 97, 110, 58, 48, 120, 103>>,  \* nan:0xg
    <<43, 110, 97, 110, 58, 120>>,  \* +nan:x
    <<40, 64>>,  \* (@
    <<40, 64, 102, 111, 111, 32, 98, 97, 114>>,  \* (@foo bar
    <<40, 97>>,  \* (a
    <<48, 120, 49, 112, 43, 49>>,  \* 0x1p+1
    <<48, 120, 49, 46, 56, 112, 51>>,  \* 0x1.8p3
    <<48, 120, 49, 46, 103>>,  \* 0x1.g
    <<49, 46, 53, 101, 49, 48>>,  \* 1.5e10
    <<49, 46, 101>>,  \* 1.e
    <<49, 95, 48, 48, 48>>,  \* 1_000
    <<49, 95, 95, 48>>,  \* 1__0
    <<43, 48, 120, 95, 49>>,  \* +0x_1
    <<45, 49, 50, 120>>,  \* -12x
    <<34, 97, 92, 110, 34>>,  \* "a\\n"
    <<34, 97, 92, 48, 103, 34>>,  \* "a\\0g"
    <<34, 97, 10, 98, 34>>,  \* "a\nb"
    <<34, 92, 52, 49, 34>>,  \* "\\41"
    <<36, 105, 100>>,  \* $id
    <<36>>,  \* $
    <<59, 59, 32, 99, 10, 120>>,  \* ;; c\nx
    <<59, 59, 99>>,  \* ;;c
    <<9, 13, 10, 32, 120>>,  \* \t\r\n x
    <<97, 32, 98>>,  \* a b
    <<126>>,  \* ~
    <<123>>,  \* {
    <<105, 51, 50, 32, 120>>  \* i32 x
  }

LexInput(family, pair, kw, bytes) ==
  [family |-> family, pair |-> pair, kw |-> kw, bytes |-> bytes]

LexInputs ==
  {LexInput("pair", p, 0,
            Keywords[p[1]].sv \o <<32>> \o Keywords[p[2]].sv) :
     p \in SpellingPairs}
  \cup {LexInput("keyword", <<>>, k, Keywords[k].sv \o s) :
          k \in 1..Len(Keywords), s \in Suffixes}
  \cup {LexInput("comment", <<>>, 0, <<40, 59>> \o w) :
          w \in UNION {[1..n -> CommentAlphabet] : n \in 0..MaxComment}}
  \cup {LexInput("text", <<>>, 0, w) :
          w \in UNION {[1..n -> TextAlphabet] : n \in 0..MaxText}}
  \cup {LexInput("line", <<>>, 0, <<59>> \o w) :
          w \in UNION {[1..n -> LineAlphabet] : n \in 0..MaxText}}
  \cup {LexInput("string", <<>>, 0, <<34>> \o w) :
          w \in UNION {[1..n -> StringAlphabet] : n \in 0..(MaxText + 1)}}
  \cup {LexInput("number", <<>>, 0, <<c>> \o w) :
          c \in NumberFirst,
          w \in UNION {[1..n -> NumberAlphabet] : n \in 0..MaxText}}
  \cup {LexInput("text", <<>>, 0, w) : w \in Crafted}

NoToken == [op |-> "none"]

InitLex ==
  /\ \E g \in LexInputs :
       /\ input = g.bytes
       /\ gen = [family |-> g.family, pair |-> g.pair, kw |-> g.kw]
  /\ data = Span(0, Len(input))
  /\ errs = <<>>
  /\ ctx = <<>>
  /\ last = NoToken
  /\ mod = [built |-> FALSE, context |-> NoContext]
  /\ iter = <<>>

\* token = Lex(&data): the token is kept with the cursor it was read at; a
\* reader of tokens that has called LexNoWhitespace stays with it
DoLex ==
  /\ Len(iter) < MaxLex
  /\ last.op # "LexNoWhitespace"
  /\ \E r \in {Lex(data)} :
       /\ data' = r.d
       /\ last' = [op |-> "Lex", tok |-> r.tok, from |-> data]
       /\ iter' = Append(iter, r.tok)
  /\ UNCHANGED <<input, gen, errs, ctx, mod>>

\* Lex called on the characters the location of the last token delimits
DoRelex ==
  /\ last.op = "Lex"
  /\ \E r \in {Lex(last.tok.loc)} :
       last' = [op |-> "Relex", tok |-> r.tok, from |-> last.tok.loc,
                of |-> last.tok]
  /\ UNCHANGED <<input, gen, data, errs, ctx, mod, iter>>

\* token = LexNoWhitespace(&data)
DoLexNoWhitespace ==
  /\ \E r \in {LexNoWhitespace(data)} :
       /\ data' = r.d
       /\ last' = [op |-> "LexNoWhitespace", tok |-> r.tok, from |-> data]
  /\ UNCHANGED <<input, gen, errs, ctx, mod, iter>>

NextLex ==
  \/ DoLex
  \/ DoRelex
  \/ DoLexNoWhitespace

SpecLex == InitLex /\ [][NextLex]_vars


(***************************************************************************)
(* The validator: the value stack and the control frames of a function     *)
(* body, and the callbacks of ValidateVisitor.                             *)
(***************************************************************************)
MaxStack == 2

MaxFrames == 2

ValueTypes == {"i32", "f32"}

\* the type that matches any expected type
Unknown == "unknown"

Frame(height, unreachable) ==
  [height |-> height, unreachable |-> unreachable]

\* the value stack and the control frames at the start of a function body
FunctionContext == [stack |-> <<>>, frames |-> <<Frame(0, FALSE)>>]

TopFrame(c) == c.frames[Len(c.frames)]

Popped(ok, val, c, error) ==
  [ok |-> ok, val |-> val, c |-> c, error |-> error]

push(c, T) == [c EXCEPT !.stack = Append(@, T)]

\* a pop that reports an underflow in unreachable code as well
popStrict(c) ==
  IF Len(c.stack) = TopFrame(c).height
  THEN Popped(FALSE, "none", c, "stack underflow")
  ELSE Popped(TRUE, c.stack[Len(c.stack)],
              [c EXCEPT !.stack = SubSeq(@, 1, Len(@) - 1)], "")

\* the values of the current frame are those above its start height; with
\* none left, unreachable code yields an unknown and reachable code underflows
pop(c) ==
  IF Len(c.stack) = TopFrame(c).height
  THEN IF TopFrame(c).unreachable
       THEN Popped(TRUE, Unknown, c, "")
       ELSE Popped(FALSE, "none", c, "stack underflow")
  ELSE Popped(TRUE, c.stack[Len(c.stack)],
              [c EXCEPT !.stack = SubSeq(@, 1, Len(@) - 1)], "")

pop_expect(c, T) ==
  LET r == pop(c)
  IN  IF ~r.ok \/ r.val = Unknown \/ T = Unknown \/ r.val = T
      THEN r
      ELSE Popped(FALSE, r.val, r.c, "type mismatch")

reset_to_height(c, h) == [c EXCEPT !.stack = SubSeq(@, 1, h)]

mark_unreachable(c) ==
  [reset_to_height(c, TopFrame(c).height)
     EXCEPT !.frames[Len(c.frames)].unreachable = TRUE]

Instruction(op, T) == [op |-> op, T |-> T]

Instructions ==
  {Instruction(op, T) : op \in {"const", "local.set", "unop"},
                        T \in ValueTypes}
    \cup {Instruction(op, "none") :
            op \in {"drop", "unreachable", "br", "return", "br_table",
                    "block", "end"}}

\* the typing of one instruction as a rewrite of the value stack; the blocks,
\* the labels and the function have no parameters and no results, and a
\* failing instruction has its declared effect on the stack
Validate(c, instruction) ==
  CASE instruction.op = "const" ->
         Popped(TRUE, "none", push(c, instruction.T), "")
    [] instruction.op = "drop" -> pop(c)
    [] instruction.op = "local.set" -> pop_expect(c, instruction.T)
    [] instruction.op = "unop" ->
         LET r == pop_expect(c, instruction.T)
         IN  [r EXCEPT !.c = push(r.c, instruction.T)]
    [] instruction.op \in {"unreachable", "br", "return"} ->
         Popped(TRUE, "none", mark_unreachable(c), "")
    [] instruction.op = "br_table" ->
         LET r == pop_expect(c, "i32")
         IN  [r EXCEPT !.c = mark_unreachable(r.c)]
    [] instruction.op = "block" ->
         Popped(TRUE, "none",
                [c EXCEPT !.frames = Append(@, Frame(Len(c.stack), FALSE))],
                "")
    [] instruction.op = "end" ->
         LET h == TopFrame(c).height
             closed == [reset_to_height(c, h) EXCEPT
                          !.frames = SubSeq(@, 1, Len(@) - 1)]
         IN  IF Len(c.stack) = h
             THEN Popped(TRUE, "none", closed, "")
             ELSE Popped(FALSE, "none", closed, "type mismatch")

Call(fn, arg) == [fn |-> fn, arg |-> arg]

Returned(result, calls) == [result |-> result, calls |-> calls]

FailUnless(b) == IF b THEN "Ok" ELSE "Fail"

value_or(opt, default) == IF opt.ok THEN opt.val ELSE default

\* began is what valid::BeginTypeSection returns
BeginTypeSection(sec, began) ==
  Returned(FailUnless(began),
           <<Call("valid::BeginTypeSection", value_or(sec.count, 0))>>)

\* OnType, OnImport, OnFunction, OnTable, OnMemory, OnGlobal, OnExport,
\* OnStart, OnElement, OnDataCount and OnData; valid is what Validate returns
OnItem(item, valid) ==
  Returned(FailUnless(valid), <<Call("Validate", item)>>)

\* a BeginCode that validates the locals whatever valid::BeginCode returned
BeginCodeEager(began, locals) ==
  Returned(FailUnless(began /\ locals),
           <<Call("valid::BeginCode", "code.loc"),
             Call("Validate", "code.locals")>>)

\* began is what valid::BeginCode returns, locals what Validate returns on
\* the locals; && evaluates its right operand only when the left one is true
BeginCode(began, locals) ==
  IF began
  THEN Returned(FailUnless(locals),
                <<Call("valid::BeginCode", "code.loc"),
                  Call("Validate", "code.locals")>>)
  ELSE Returned(FailUnless(FALSE),
                <<Call("valid::BeginCode", "code.loc")>>)

OnInstruction(c, instruction) ==
  LET r == Validate(c, instruction)
  IN  [result |-> FailUnless(r.ok),
       calls |-> <<Call("Validate", instruction)>>, validated |-> r]

Items ==
  {"type", "import", "function", "table", "memory", "global", "export",
   "start", "element", "data_count", "data"}

SectionCounts ==
  {[count |-> [ok |-> FALSE]]}
    \cup {[count |-> [ok |-> TRUE, val |-> n]] : n \in 0..2}

InitValid ==
  /\ input = <<>>
  /\ gen = [family |-> "valid"]
  /\ data = Span(0, 0)
  /\ errs = <<>>
  /\ ctx = <<>>
  /\ last = [op |-> "none"]
  /\ mod = FunctionContext
  /\ iter = <<>>

DoBeginTypeSection ==
  /\ \E sec \in SectionCounts, began \in BOOLEAN :
       last' = [op |-> "BeginTypeSection", sec |-> sec, began |-> began,
                ret |-> BeginTypeSection(sec, began)]
  /\ UNCHANGED <<input, gen, data, errs, ctx, mod, iter>>

DoOnItem ==
  /\ \E item \in Items, valid \in BOOLEAN :
       last' = [op |-> "OnItem", item |-> item, valid |-> valid,
                ret |-> OnItem(item, valid)]
  /\ UNCHANGED <<input, gen, data, errs, ctx, mod, iter>>

\* the body of the next function starts on an empty stack
DoBeginCode ==
  /\ \E began \in BOOLEAN, locals \in BOOLEAN :
       /\ last' = [op |-> "BeginCode", began |-> began, locals |-> locals,
                   ret |-> BeginCode(began, locals)]
       /\ mod' = IF began THEN FunctionContext ELSE mod
  /\ UNCHANGED <<input, gen, data, errs, ctx, iter>>

DoOnInstruction ==
  /\ \E instruction \in Instructions :
       /\ instruction.op \in {"const", "unop"} => Len(mod.stack) < MaxStack
       /\ instruction.op = "block" => Len(mod.frames) <= MaxFrames
       /\ instruction.op = "end" => Len(mod.frames) > 1
       /\ \E r \in {OnInstruction(mod, instruction)} :
            /\ mod' = r.validated.c
            /\ last' = [op |-> "OnInstruction", instruction |-> instruction,
                        before |-> mod, ret |-> r]
  /\ UNCHANGED <<input, gen, data, errs, ctx, iter>>

NextValid ==
  \/ DoBeginTypeSection
  \/ DoOnItem
  \/ DoBeginCode
  \/ DoOnInstruction

SpecValid == InitValid /\ [][NextValid]_vars


(***************************************************************************)
(* Properties of ReadVarInt, ReadCount and ReadVec (SpecReader).           *)
(***************************************************************************)
\* K = ceil((W + 6) / 7): 5 bytes for 32 bits, 10 bytes for 64 bits
MaxLebBytes(T) == IF Width(T) = 64 THEN 10 ELSE 5

\* the last operation was ReadVarInt<T>
DidReadVarInt(T) == last.op = "ReadVarInt" /\ last.T = T

\* the number of bytes the last operation consumed
Consumed == last.rest.b - last.before.b

\* the byte k (from 1) of the span the last operation started on
ByteAt(k) == input[last.before.b + k]

\* the first n bytes the last operation started on exist and all have the
\* continuation bit
AllContinue(n) ==
  /\ Size(last.before) >= n
  /\ \A k \in 1..n : ByteAt(k) >= 128

\* the last operation failed: no value, and an error went to the sink
Failed == ~last.ok /\ last.val = NoVal /\ Len(errs) > last.e0

\* C1: ReadVarInt<T> on the canonical LEB128 encoding of v, followed by any
\* bytes, returns v; the encoding has at most K bytes; the cursor ends
\* exactly after the encoding; no error is reported.
C1_RoundTrip ==
  \A T \in VarIntTypes :
    (DidReadVarInt(T) /\ gen.kind = "enc" /\ gen.T = T /\ last.before.b = 0)
      => /\ last.ok
         /\ last.val = gen.v
         /\ gen.n <= MaxLebBytes(T)
         /\ last.rest = Span(gen.n, Len(input))
         /\ data = last.rest
         /\ errs = <<>>

C1_Witness ==
  /\ DidReadVarInt("s64") /\ gen.kind = "enc" /\ gen.T = "s64"
  /\ last.before.b = 0
  /\ gen.n = 10
  /\ 63 \in gen.v
  /\ last.ok /\ last.val = gen.v
  /\ Size(data) = MaxTail

\* C2: when the first K bytes all have the continuation bit, ReadVarInt<T>
\* fails, reports an error, and has read exactly K bytes, never more.
C2_Overlong ==
  \A T \in VarIntTypes :
    (DidReadVarInt(T) /\ AllContinue(MaxLebBytes(T)))
      => Failed /\ Consumed = MaxLebBytes(T)

C2_Witness ==
  /\ DidReadVarInt("u32")
  /\ AllContinue(5)
  /\ Size(last.before) > 5
  /\ Failed
  /\ Size(data) > 0

\* the bits of a last byte b that do not fit in the W-bit result: the
\* payload bits from position W - 7 (K - 1) on, and the continuation bit
UnusedBits(T) == {j \in 0..7 : 7 * (MaxLebBytes(T) - 1) + j >= Width(T)}

\* the last bit of b that is retained
LastRetained(T) == Width(T) - 1 - 7 * (MaxLebBytes(T) - 1)

ExtendsResult(T, b) ==
  IF IsSigned(T)
  THEN /\ 7 \notin BitsOf(b)
       /\ \A j \in UnusedBits(T) \ {7} :
            (j \in BitsOf(b)) <=> (LastRetained(T) \in BitsOf(b))
  ELSE UnusedBits(T) \cap BitsOf(b) = {}

AcceptedLastBytes(T) ==
  CASE T = "u32" -> 0..15
    [] T = "s32" -> (0..7) \cup (120..127)
    [] T = "s64" -> {0, 127}

\* C3: a K-th byte is accepted exactly when its bits that do not fit in the
\* result are zero (unsigned) or repeat the last retained bit (signed): the
\* bytes 0x00..0x0F for u32, 0x00..0x07 and 0x78..0x7F for s32, 0x00 and
\* 0x7F for s64.  Any other K-th byte is an error and no value.
C3_LastByte ==
  \A T \in VarIntTypes :
    (DidReadVarInt(T) /\ AllContinue(MaxLebBytes(T) - 1)
       /\ Size(last.before) >= MaxLebBytes(T))
      => /\ last.ok <=> ByteAt(MaxLebBytes(T)) \in AcceptedLastBytes(T)
         /\ last.ok <=> ExtendsResult(T, ByteAt(MaxLebBytes(T)))
         /\ ~last.ok => Failed
         /\ Consumed = MaxLebBytes(T)

C3_Witness ==
  /\ DidReadVarInt("s32")
  /\ AllContinue(4)
  /\ Size(last.before) >= 5
  /\ ByteAt(5) = 120
  /\ last.ok
  /\ 31 \in last.val

\* the 7 n payload bits of the first n bytes, least significant group first
Payload(n) ==
  UNION {{7 * (k - 1) + j : j \in BitsOf(ByteAt(k)) \ {7}} : k \in 1..n}

\* C5: a signed ReadVarInt that ends after n < K bytes returns the 7 n
\* payload bits sign-extended from bit 7 n - 1: negative exactly when 0x40
\* of the last byte is set (0x7F is -1, 0x40 is -64, 0x3F is 63).
C5_SignExtension ==
  \A T \in {"s32", "s64"} :
    (DidReadVarInt(T) /\ last.ok /\ Consumed < MaxLebBytes(T))
      => /\ last.val \cap (0..(7 * Consumed - 1)) = Payload(Consumed)
         /\ \A b \in (7 * Consumed)..(Width(T) - 1) :
              (b \in last.val) <=> ((7 * Consumed - 1) \in last.val)
         /\ ((Width(T) - 1) \in last.val) <=> (6 \in BitsOf(ByteAt(Consumed)))
         /\ (Consumed = 1 /\ ByteAt(1) = 127) => last.val = IntToBits(Width(T), -1)
         /\ (Consumed = 1 /\ ByteAt(1) = 64) => last.val = IntToBits(Width(T), -64)
         /\ (Consumed = 1 /\ ByteAt(1) = 63) => last.val = IntToBits(Width(T), 63)

C5_Witness ==
  /\ DidReadVarInt("s64")
  /\ last.ok
  /\ Consumed = 2
  /\ 6 \in BitsOf(ByteAt(2))
  /\ last.val = (0..63) \ (0..6)

\* C6: ReadCount fails, with an error and no value, when the count decoded
\* is greater than the number of bytes left after the count, and returns
\* the count otherwise; ReadVec reserves and attempts no more elements
\* than bytes are left after the count.
C6_ReadCount ==
  /\ (last.op = "ReadCount" /\ gen.kind = "enc" /\ gen.T = "u32"
        /\ last.before.b = 0)
       => /\ last.ok <=> ~BitsGt(gen.v, Len(input) - gen.n)
          /\ last.ok => last.val = gen.v /\ Len(errs) = last.e0
          /\ ~last.ok => Failed
          /\ last.rest = Span(gen.n, Len(input))
  /\ last.op = "ReadVec"
       => /\ last.reserved <= last.avail
          /\ last.attempts <= last.avail
          /\ last.ok => Len(last.val) = last.reserved

C6_Witness ==
  /\ last.op = "ReadCount" /\ gen.kind = "enc" /\ gen.T = "u32"
  /\ last.before.b = 0
  /\ last.ok
  /\ BitsToNat(last.val) = MaxTail
  /\ Size(data) = MaxTail

(***************************************************************************)
(* Properties of the section framing and of LazyModule (SpecModule).       *)
(***************************************************************************)
\* the offset where section k of the input starts
RECURSIVE SecStart(_)
SecStart(k) ==
  IF k = 1 THEN gen.hlen ELSE SecStart(k - 1) + Len(gen.secs[k - 1].bytes)

\* the bytes section k declares as its body
SecBody(k) ==
  Span(SecStart(k) + gen.secs[k].hdr,
       SecStart(k) + gen.secs[k].hdr + gen.secs[k].len)

\* the section value v is section k of the input, framed by its header
Framed(v, k) ==
  /\ v.start = SecStart(k)
  /\ v.kind = "known" => v.data = SecBody(k)
  /\ v.kind = "custom"
       => /\ v.name.b > SecBody(k).b
          /\ v.name.e <= SecBody(k).e
          /\ v.data = Span(v.name.e, SecBody(k).e)

\* Read<Section> was applied where the first section starts
ReadFirstSection ==
  /\ gen.secs # <<>>
  /\ last.op = "ReadSection"
  /\ last.before.b = SecStart(1)

\* the declared length of section k fits in the input
Fits(k) == SecBody(k).e <= Len(input)

\* the iterator stands on a section of an input with an 8-byte header, and
\* the sections before it ended where their bytes end
OnSection ==
  /\ Len(kMagic) + Len(kVersion) = gen.hlen
  /\ iter.started
  /\ ~IterAtEnd(iter)
  /\ \A j \in 1..(Len(iter.seen) - 1) :
       SecBody(j).e = SecStart(j) + Len(gen.secs[j].bytes)

\* C7: when the header of a section decodes and its length fits, the body
\* is exactly the next len bytes and the cursor is past exactly those
\* bytes, whatever the body holds (a custom section's name lies in the
\* body and its payload is the rest of the body); a length that does not
\* fit is an error and no section; a reader of the body stays in the body.
C7_Framing ==
  /\ ReadFirstSection
       => /\ (gen.secs[1].name # "unknown" /\ ~Fits(1)) => Failed
          /\ (gen.secs[1].name # "unknown" /\ Fits(1))
               => last.rest = Span(SecBody(1).e, Len(input))
          /\ last.ok
               <=> Fits(1) /\ gen.secs[1].name \notin {"unknown", "badname"}
          /\ last.ok => Framed(last.val, 1)
  /\ OnSection
       => /\ Framed(iter.value, Len(iter.seen))
          /\ iter.data = Span(SecBody(Len(iter.seen)).e, Len(input))
  /\ (OnSection /\ iter.opened)
       => /\ last.op = "LazySection"
          /\ last.before = iter.value.data
          /\ last.rest.e = last.before.e
          /\ last.before.b <= last.rest.b /\ last.rest.b <= last.rest.e
          /\ last.rest.e = iter.data.b

C7_Witness ==
  /\ OnSection /\ iter.opened
  /\ Len(iter.seen) = 1
  /\ Len(gen.secs) = 2
  /\ gen.secs[1].name = "type" /\ gen.secs[2].name = "custom"
  /\ last.ok
  /\ last.rest = Span(last.before.b + 1, last.before.e)

\* C8: the id of a section is one byte: a header whose first byte has
\* the high bit set is not accepted, and the id of an accepted section is
\* its first byte.
C8_OneByteId ==
  /\ (ReadFirstSection /\ last.ok)
       => ByteAt(1) < 128 /\ last.val.id = ByteAt(1)
  /\ OnSection
       => /\ input[iter.value.start + 1] < 128
          /\ iter.value.id = input[iter.value.start + 1]

Mismatches ==
  (IF SubSeq(input, 1, 4) # <<0, 97, 115, 109>> THEN 1 ELSE 0)
    + (IF SubSeq(input, 5, 8) # <<1, 0, 0, 0>> THEN 1 ELSE 0)

\* C9: on an input of at least 8 bytes the constructor reports one error
\* for a magic that differs and one for a version that differs, none when
\* both match, and the sections are those of the bytes after the first 8.
C9_Header ==
  (mod.built /\ Len(input) >= 8)
    => /\ ~mod.crashed
       /\ mod.sections = Span(8, Len(input))
       /\ ~iter.started => Len(errs) = Mismatches
       /\ (~iter.started /\ SubSeq(input, 1, 4) # <<0, 97, 115, 109>>)
            => errs[1].msg = "Magic mismatch"
       /\ (~iter.started /\ SubSeq(input, 5, 8) # <<1, 0, 0, 0>>)
            => errs[Len(errs)].msg = "Version mismatch"
       /\ (OnSection /\ Len(iter.seen) = 1) => iter.value.start = 8
       /\ (iter.started /\ Len(kMagic) + Len(kVersion) = gen.hlen
             /\ gen.secs # <<>> /\ gen.secs[1].wf)
            => Len(iter.seen) >= 1

C9_Witness ==
  /\ mod.built
  /\ gen.header = "both"
  /\ Len(errs) = 2
  /\ OnSection
  /\ Len(iter.seen) = 2

\* C10: on a well-formed module the iteration of the sections to the end
\* reports no error and consumes every byte: each section yielded starts
\* where the one before ended, spans its header and its declared length,
\* and the cursor is empty after the last one; the 8-byte module yields
\* no section.
C10_ConsumesAll ==
  (gen.wf /\ last.op = "none" /\ iter.started)
    => /\ errs = <<>>
       /\ Len(iter.seen) <= Len(gen.secs)
       /\ \A k \in 1..Len(iter.seen) :
            /\ iter.seen[k].start = SecStart(k)
            /\ iter.seen[k].data.e
                 = SecStart(k) + gen.secs[k].hdr + gen.secs[k].len
            /\ iter.seen[k].data.e = SecStart(k) + Len(gen.secs[k].bytes)
       /\ ~IterAtEnd(iter)
            => iter.data = Span(SecBody(Len(iter.seen)).e, Len(input))
       /\ (~IterAtEnd(iter) /\ Len(iter.seen) = Len(gen.secs))
            => iter.data = Span(Len(input), Len(input))
       /\ IterAtEnd(iter)
            => Len(iter.seen) = Len(gen.secs) /\ IterEmpty(iter)
       /\ gen.secs = <<>> => IterAtEnd(iter) /\ iter.seen = <<>>

C10_Witness ==
  /\ gen.wf /\ last.op = "none" /\ iter.started
  /\ IterAtEnd(iter)
  /\ Len(iter.seen) = MaxSections
  /\ iter.seen[1].kind = "custom"
  /\ errs = <<>>

(***************************************************************************)
(* Properties of the instruction reader (SpecInstr) and of the iteration.  *)
(***************************************************************************)
DidReadInstr == last.op = "ReadInstr"

\* the offset at which the instruction j of the input starts
RECURSIVE InstrStart(_)
InstrStart(j) == IF j = 1 THEN 0 ELSE InstrStart(j - 1) + gen.lens[j - 1]

\* the shape of the immediate of an opcode
ShapeOf(op) ==
  CASE op \in {2, 3, 4} -> "block_type"
    [] op \in {12, 13, 16, 32, 33, 34, 35, 36} -> "index"
    [] op = 14 -> "br_table"
    [] op = 17 -> "call_indirect"
    [] op \in 40..62 -> "memarg"
    [] op \in {63, 64} -> "u8"
    [] op = 65 -> "s32"
    [] op = 66 -> "s64"
    [] op = 67 -> "f32"
    [] op = 68 -> "f64"
    [] OTHER -> "empty"

\* C11: Read<Instr> decodes one opcode and the immediate whose shape the
\* opcode selects; on a well-formed instruction it returns the instruction
\* with its immediate values and advances by exactly the bytes of the opcode
\* and the immediate; on an unknown opcode or a failing immediate it reports
\* an error and returns nothing.
C11_InstrShape ==
  DidReadInstr =>
    /\ last.ok => /\ last.val.opcode = ByteAt(1)
                  /\ last.val.shape = ShapeOf(last.val.opcode)
                  /\ Consumed >= 1
                  /\ Len(errs) = last.e0
    /\ ~last.ok => Failed
    /\ \A j \in 1..Len(gen.instrs) :
         last.before.b = InstrStart(j)
           => /\ last.ok
              /\ last.val = gen.instrs[j]
              /\ Consumed = gen.lens[j]
    /\ (gen.kind # "const" /\ last.before.b = InstrStart(Len(gen.instrs) + 1))
         => ~last.ok

C11_Witness ==
  /\ DidReadInstr /\ last.ok
  /\ last.val.shape = "br_table"
  /\ Len(last.val.imm.targets) = 2
  /\ Consumed = 6

\* the blocks open after the first k instructions of seq; an end with no
\* block open leaves none open
RECURSIVE OpenBlocks(_, _)
OpenBlocks(seq, k) ==
  IF k = 0 THEN 0
  ELSE IF seq[k].opcode \in {2, 3, 4, 6} THEN OpenBlocks(seq, k - 1) + 1
  ELSE IF seq[k].opcode # 11 THEN OpenBlocks(seq, k - 1)
  ELSE IF OpenBlocks(seq, k - 1) = 0 THEN 0 ELSE OpenBlocks(seq, k - 1) - 1

\* the positions in seq of an end read while no block is open
FinalEnds(seq) ==
  {k \in 1..Len(seq) : seq[k].opcode = 11 /\ OpenBlocks(seq, k - 1) = 0}

C13_ConstExpr ==
  (last.op = "ReadConstExpr" /\ gen.kind = "const" /\ last.before.b = 0)
    => /\ last.ok <=> gen.cx
       /\ last.ok => /\ last.val = Span(0, gen.cxlen)
                     /\ data = Span(gen.cxlen, Len(input))
       /\ ~last.ok => Failed /\ data = last.before

\* the span the next step of the section iterator reads from
IterSource == IF iter.started THEN iter.data ELSE mod.sections

\* C14: a step of a lazy sequence iterator either yields the element decoded
\* at the front of the remaining bytes and consumes at least one byte, or
\* yields nothing and leaves the iterator equal to end; it yields nothing on
\* remaining bytes only with an error reported; the elements yielded are
\* never more than the bytes consumed.
C14_Iteration ==
  [][(iter' # iter /\ ~iter'.opened) =>
       IF Len(iter'.seen) > Len(iter.seen)
       THEN /\ iter'.seen = Append(iter.seen, iter'.value)
            /\ iter'.value.start = IterSource.b
            /\ iter'.data.b > IterSource.b
            /\ iter'.data.e = IterSource.e
            /\ ~IterAtEnd(iter')
            /\ Len(iter'.seen) <= iter'.data.b - mod.sections.b
       ELSE /\ IterAtEnd(iter')
            /\ iter'.seen = iter.seen
            /\ Size(IterSource) > 0 => Len(errs') > Len(errs)]_vars

C14_Witness ==
  /\ mod.built /\ iter.started
  /\ IterAtEnd(iter)
  /\ Len(iter.seen) = 1
  /\ Len(gen.secs) = 2
  /\ gen.secs[1].wf
  /\ Len(errs) > 0

\* C15: every operation of the reader returns with the context stack of the
\* error sink as deep as it was when the operation was entered.
C15_ContextBalanced == [][Len(ctx') = Len(ctx)]_vars

(***************************************************************************)
(* The lexer: progress, the round trip of a location, keywords and         *)
(* comments.                                                               *)
(***************************************************************************)
DidLex == last.op = "Lex"

\* C16: one call to Lex on a cursor that is not empty moves the cursor
\* forward by one character at least, and on an empty cursor it returns Eof
\* and leaves the cursor where it is.
C16_Progress ==
  DidLex =>
    IF Size(last.from) = 0
    THEN last.tok.type = "Eof" /\ data = last.from
    ELSE data.b >= last.from.b + 1 /\ data.e = last.from.e

\* C17: Lex called on the characters that the location of a token delimits
\* returns a token of the type of that token.
C17_RoundTrip ==
  last.op = "Relex" => last.tok.type = last.of.type

\* the characters at the cursor d begin with sv
StartsWith(d, sv) ==
  /\ Size(d) >= Len(sv)
  /\ \A k \in 1..Len(sv) : input[d.b + k] = sv[k]

\* where the longest run of reserved characters from the cursor d ends
RunEnd(d) ==
  CHOOSE e \in d.b..d.e :
    /\ \A k \in (d.b + 1)..e : IsReserved(input[k])
    /\ e = d.e \/ ~IsReserved(input[e + 1])

\* C18: at a cursor that begins with the spelling of a keyword, the token of
\* the keyword is returned only if no reserved character follows the
\* spelling; if reserved characters follow, the token returned is not that
\* of the keyword, its location is the whole run of reserved characters from
\* the start of the token, and the cursor is left right after the run.
C18_Keyword ==
  DidLex =>
    \A k \in 1..Len(Keywords) :
      StartsWith(last.from, Keywords[k].sv) =>
        LET after == last.from.b + Len(Keywords[k].sv)
            keyword == /\ last.tok.type = Keywords[k].type
                       /\ last.tok.info = Keywords[k].info
                       /\ last.tok.loc = Span(last.from.b, after)
        IN  IF RunEnd(last.from) = after
            THEN keyword /\ data.b = after
            ELSE /\ ~keyword
                 /\ last.tok.loc = Span(last.from.b, RunEnd(last.from))
                 /\ data.b = RunEnd(last.from)

\* C19: the legacy spelling and the canonical spelling of an instruction are
\* lexed to tokens of the same type (BareInstr) that carry the same opcode
\* and the same features; the locations are those of the two spellings.
C19_Spellings ==
  (gen.family = "pair" /\ Len(iter) >= 3) =>
    LET legacy == Keywords[gen.pair[1]].sv
    IN  /\ iter[1].type = "BareInstr"
        /\ iter[3].type = "BareInstr"
        /\ iter[1].info.opcode = iter[3].info.opcode
        /\ iter[1].info.features = iter[3].info.features
        /\ iter[1].loc = Span(0, Len(legacy))
        /\ iter[3].loc = Span(Len(legacy) + 1, Len(input))
        /\ gen.pair = <<13, 17>> => iter[1].info.opcode = "I32TruncF32S"

\* both spellings of a saturating truncation have been lexed
C19_Witness ==
  /\ gen.family = "pair"
  /\ Len(iter) >= 3
  /\ iter[1].type = "BareInstr"
  /\ iter[3].type = "BareInstr"
  /\ iter[3].info.features = "SaturatingFloatToInt"
  /\ iter[1].loc # iter[3].loc

\* the end of the comment that is open at depth when the characters from p
\* are scanned for "(;" and ";)" from left to right, or -1 if the input
\* ends before the depth is back to zero
RECURSIVE CommentClose(_, _, _)
CommentClose(p, e, depth) ==
  IF p + 2 > e THEN -1
  ELSE IF input[p + 1] = 40 /\ input[p + 2] = 59
  THEN CommentClose(p + 2, e, depth + 1)
  ELSE IF input[p + 1] = 59 /\ input[p + 2] = 41
  THEN IF depth = 1 THEN p + 2 ELSE CommentClose(p + 2, e, depth - 1)
  ELSE CommentClose(p + 1, e, depth)

\* C20: at a cursor that begins with "(;", Lex returns a BlockComment that
\* ends at the first ";)" where as many ";)" as "(;" have been read, and an
\* InvalidBlockComment that covers the rest of the input if there is none.
C20_Nesting ==
  (DidLex /\ StartsWith(last.from, <<40, 59>>)) =>
    LET close == CommentClose(last.from.b, last.from.e, 0)
    IN  IF close # -1
        THEN /\ last.tok.type = "BlockComment"
             /\ last.tok.loc = Span(last.from.b, close)
             /\ data.b = close
        ELSE /\ last.tok.type = "InvalidBlockComment"
             /\ last.tok.loc = Span(last.from.b, last.from.e)
             /\ data.b = last.from.e

\* a comment with a closed comment inside it has been lexed
C20_Witness ==
  /\ DidLex
  /\ last.tok.type = "BlockComment"
  /\ \E p \in (last.tok.loc.b + 2)..(last.tok.loc.e - 4) :
       /\ input[p + 1] = 59
       /\ input[p + 2] = 41
       /\ CommentClose(last.tok.loc.b, p + 2, 0) = -1

\* the indices of the newlines after the ";;" at the cursor d
Newlines(d) == {k \in (d.b + 3)..d.e : input[k] = 10}

\* C27: at a cursor on ";;" the token is a LineComment through the first
\* newline if there is one, and an InvalidLineComment over the rest of the
\* input if there is none; at a cursor on a ';' that no ';' follows it is an
\* InvalidChar of one character.
C27_LineComment ==
  (DidLex /\ PeekChar(last.from, 0) = 59) =>
    IF PeekChar(last.from, 1) # 59
    THEN /\ last.tok.type = "InvalidChar"
         /\ last.tok.loc = Span(last.from.b, last.from.b + 1)
         /\ data.b = last.from.b + 1
    ELSE IF Newlines(last.from) = {}
    THEN /\ last.tok.type = "InvalidLineComment"
         /\ last.tok.loc = Span(last.from.b, last.from.e)
         /\ data.b = last.from.e
    ELSE /\ last.tok.type = "LineComment"
         /\ last.tok.loc.b = last.from.b
         /\ last.tok.loc.e \in Newlines(last.from)
         /\ \A k \in Newlines(last.from) : last.tok.loc.e <= k
         /\ data.b = last.tok.loc.e

\* a line comment has been lexed that ends with its newline before the end
\* of the input
C27_Witness ==
  /\ DidLex
  /\ last.tok.type = "LineComment"
  /\ input[last.tok.loc.e] = 10
  /\ last.tok.loc.e < Len(input)
  /\ last.tok.loc.e > last.tok.loc.b + 3

\* C25: at a cursor on "(@" followed by a name, Lex returns an LparAnn whose
\* location is the "(@" and the longest run of reserved characters after
\* it, and leaves the cursor after that run.
C25_Annotation ==
  (DidLex /\ StartsWith(last.from, <<40, 64>>)
          /\ IsReserved(PeekChar(last.from, 2))) =>
    /\ last.tok.type = "LparAnn"
    /\ last.tok.loc = Span(last.from.b, RunEnd(remove_prefix(last.from, 2)))
    /\ data.b = RunEnd(remove_prefix(last.from, 2))

\* C26: the location of the token a call to Lex returns starts at the
\* cursor before the call and ends at the cursor after the call.
C26_Tiling ==
  DidLex => last.tok.loc = Span(last.from.b, data.b)

\* the escapes of one character: t n r " ' \
EscapeChars == {116, 110, 114, 34, 39, 92}

\* the length of the item of a string that starts at offset p, before the
\* end e: a backslash with the character after it (with two if both are
\* hex digits and the first is not an escape), or one character
ItemLen(p, e) ==
  IF input[p + 1] # 92 \/ p + 1 >= e THEN 1
  ELSE IF input[p + 2] \in EscapeChars THEN 2
  ELSE IF p + 2 < e /\ IsHexDigit(input[p + 2]) /\ IsHexDigit(input[p + 3])
  THEN 3
  ELSE 2

\* the item at p is a character other than the newline, or a backslash
\* with an escape character or with two hex digits
ItemValid(p, e) ==
  IF input[p + 1] = 92
  THEN p + 1 < e /\ (input[p + 2] \in EscapeChars \/ ItemLen(p, e) = 3)
  ELSE input[p + 1] # 10

\* the string whose first item is at p: where it ends (after the closing
\* '"', or at e), whether it is closed, whether all its items are valid
\* and how many they are
RECURSIVE StringAt(_, _, _, _)
StringAt(p, e, valid, items) ==
  IF p >= e THEN [end |-> e, closed |-> FALSE, valid |-> valid,
                  items |-> items]
  ELSE IF input[p + 1] = 34
  THEN [end |-> p + 1, closed |-> TRUE, valid |-> valid, items |-> items]
  ELSE StringAt(p + ItemLen(p, e), e, valid /\ ItemValid(p, e), items + 1)

\* C21: at a cursor on '"' the token is a Text if the string is closed
\* before the end of the input and all its items are valid (no newline,
\* every backslash with an escape character or two hex digits), and an
\* InvalidText otherwise; it ends after the closing '"', or at the end of
\* the input; the byte size of a Text is the number of its items.
C21_Text ==
  (DidLex /\ PeekChar(last.from, 0) = 34) =>
    LET s == StringAt(last.from.b + 1, last.from.e, TRUE, 0)
    IN  /\ last.tok.loc = Span(last.from.b, s.end)
        /\ data.b = s.end
        /\ IF s.closed /\ s.valid
           THEN /\ last.tok.type = "Text"
                /\ last.tok.info.byte_size = s.items
                /\ last.tok.info.text = last.tok.loc
           ELSE last.tok.type = "InvalidText"

\* a Text with an escape of two hex digits and another item has been lexed
C21_Witness ==
  /\ DidLex
  /\ last.tok.type = "Text"
  /\ last.tok.info.byte_size >= 2
  /\ \E p \in (last.tok.loc.b + 1)..(last.tok.loc.e - 4) :
       input[p + 1] = 92 /\ ItemLen(p, last.tok.loc.e) = 3

\* the characters from offset p to offset q are digits of the class bit
\* with single '_' between two of them
Group(p, q, bit) ==
  /\ q > p
  /\ IsCharClass(input[p + 1], bit)
  /\ IsCharClass(input[q], bit)
  /\ \A k \in (p + 1)..q : IsCharClass(input[k], bit) \/ input[k] = 95
  /\ \A k \in (p + 1)..(q - 1) : ~(input[k] = 95 /\ input[k + 1] = 95)

\* the characters from f to e are nothing, or an exponent: one of exps, a
\* sign or none, decimal digits
Exponent(f, e, exps) ==
  \/ f = e
  \/ /\ f < e
     /\ input[f + 1] \in exps
     /\ \/ Group(f + 1, e, 8)
        \/ f + 1 < e /\ input[f + 2] \in {43, 45} /\ Group(f + 2, e, 8)

\* the characters from m to e are digits, then nothing or a '.' with
\* digits or none, then nothing or an exponent
Mantissa(m, e, bit, exps) ==
  \E i \in (m + 1)..e :
    /\ Group(m, i, bit)
    /\ \/ Exponent(i, e, exps)
       \/ /\ i < e
          /\ input[i + 1] = 46
          /\ \E f \in (i + 1)..e :
               /\ f = i + 1 \/ Group(i + 1, f, bit)
               /\ Exponent(f, e, exps)

\* where the digits start at the cursor d: after the sign if there is one
AfterSign(d) == IF PeekChar(d, 0) \in {43, 45} THEN d.b + 1 ELSE d.b

\* the digits at the cursor d are hex: "0x" is before them
IsHex(d) == StartsWith(Span(AfterSign(d), d.e), <<48, 120>>)

\* the run of reserved characters at the cursor d is a number
IsNumber(d) ==
  IF IsHex(d) THEN Mantissa(AfterSign(d) + 2, RunEnd(d), 4, {112, 80})
  ELSE Mantissa(AfterSign(d), RunEnd(d), 8, {101, 69})

\* the run has a '.' or a character of the exponent
IsFloat(d) ==
  \E k \in (AfterSign(d) + 1)..RunEnd(d) :
    input[k] \in (IF IsHex(d) THEN {46, 112, 80} ELSE {46, 101, 69})

\* C22: at a cursor on a digit, or on a sign and a digit, the token covers
\* the run of reserved characters; if the run is a number it is a Float when
\* it has a '.' or an exponent, else an Int when it has a sign and a Nat
\* when it has none, and has_underscores is set exactly if the run has a
\* '_'; if the run is not a number the token is Reserved.
C22_Number ==
  (DidLex /\ IsDigit(PeekChar(Span(AfterSign(last.from), last.from.e), 0))) =>
    /\ last.tok.loc = Span(last.from.b, RunEnd(last.from))
    /\ data.b = RunEnd(last.from)
    /\ IF IsNumber(last.from)
       THEN /\ last.tok.type =
                 (IF IsFloat(last.from) THEN "Float"
                  ELSE IF AfterSign(last.from) > last.from.b THEN "Int"
                  ELSE "Nat")
            /\ last.tok.info.kind =
                 (IF IsHex(last.from) THEN "HexNumber" ELSE "Number")
            /\ last.tok.info.has_underscores =
                 (\E k \in (last.from.b + 1)..RunEnd(last.from) :
                    input[k] = 95)
       ELSE last.tok.type = "Reserved"

\* a hex Float with a fraction, an exponent and '_' has been lexed
C22_Witness ==
  /\ DidLex
  /\ IsHex(last.from)
  /\ IsNumber(last.from)
  /\ last.tok.type = "Float"
  /\ last.tok.info.has_underscores
  /\ \E k \in (last.tok.loc.b + 1)..last.tok.loc.e : input[k] = 46
  /\ \E k \in (last.tok.loc.b + 1)..last.tok.loc.e : input[k] = 112

\* what the n-th of n calls to Lex in a row returns, the first at the
\* cursor d
RECURSIVE NthLex(_, _)
NthLex(d, n) ==
  Then(Lex(d), LAMBDA r : IF n = 1 THEN r ELSE NthLex(r.d, n - 1))

\* C23: the token of LexNoWhitespace is the first token of the calls to Lex
\* in a row whose type is not Whitespace, LineComment or BlockComment, and
\* the cursor is where that call to Lex leaves it.
C23_NoWhitespace ==
  last.op = "LexNoWhitespace" =>
    /\ last.tok.type \notin SkippedTypes
    /\ \E n \in 1..(Size(last.from) + 1) :
         /\ \A j \in 1..(n - 1) :
              NthLex(last.from, j).tok.type \in SkippedTypes
         /\ NthLex(last.from, n).tok = last.tok
         /\ NthLex(last.from, n).d = data

\* LexNoWhitespace has skipped two tokens and returned one that is not Eof
C23_Witness ==
  /\ last.op = "LexNoWhitespace"
  /\ last.tok.type \notin {"Eof", "Reserved"}
  /\ Size(last.tok.loc) > 0
  /\ NthLex(last.from, 1).tok.type = "Whitespace"
  /\ NthLex(last.from, 2).tok.type \in {"BlockComment", "LineComment"}

(***************************************************************************)
(* The reads of a fixed size and the constructor on a short input.         *)
(***************************************************************************)
\* the number of bytes that the last read asked for
Asked == IF last.op = "ReadU8" THEN 1 ELSE last.attempts

\* C29: Read<u8> and ReadBytes(N) on a cursor with fewer bytes than asked
\* for report one error, return no value and leave the cursor where it is;
\* otherwise they return the first bytes of the cursor, report nothing and
\* move the cursor forward by the number of bytes asked for.
C29_AllOrNothing ==
  last.op \in {"ReadU8", "ReadBytes"} =>
    IF Size(last.before) < Asked
    THEN /\ ~last.ok
         /\ last.val = NoVal
         /\ data = last.before
         /\ Len(errs) = last.e0 + 1
         /\ errs[Len(errs)].at = last.before
    ELSE /\ last.ok
         /\ data = Span(last.before.b + Asked, last.before.e)
         /\ data.b <= last.before.e
         /\ Len(errs) = last.e0
         /\ last.op = "ReadU8" => last.val = input[last.before.b + 1]
         /\ last.op = "ReadBytes"
              => last.val = Span(last.before.b, last.before.b + Asked)

\* four bytes have been read from a cursor that is not at the start
C29_Witness ==
  /\ last.op = "ReadBytes"
  /\ last.ok
  /\ last.attempts = 4
  /\ last.before.b > 0
  /\ Size(data) > 0

\* C28: the constructor on an input of fewer than 8 bytes reports that the
\* bytes cannot be read and does not read the value of a magic or of a
\* version that is absent.
C28_ShortInput ==
  (mod.built /\ Len(input) < 8) =>
    /\ ~mod.ub
    /\ ~mod.crashed
    /\ errs # <<>>

(***************************************************************************)
(* Properties of the validator's value stack and of the callbacks of       *)
(* ValidateVisitor (SpecValid).                                            *)
(***************************************************************************)
\* the last callback validated an instruction that pops a value
DidPop ==
  /\ last.op = "OnInstruction"
  /\ last.instruction.op \in {"drop", "local.set", "unop", "br_table"}

\* the last callback validated an instruction that pushes a value
DidPush ==
  /\ last.op = "OnInstruction"
  /\ last.instruction.op \in {"const", "unop"}

\* the frame the last instruction was validated in
FrameBefore == TopFrame(last.before)

\* the value stack held no value of the current frame
AtStartHeight == Len(last.before.stack) = FrameBefore.height

\* C24: in a frame marked unreachable a pop at the frame's start height
\* yields the unknown type, which matches any expected type, and is no
\* error; a push is recorded in an unreachable frame too; a pop removes no
\* value below the start height of the frame; in a frame not marked
\* unreachable a pop at the start height is a stack underflow
C24_StackPolymorphic ==
  /\ Len(mod.stack) >= TopFrame(mod).height
  /\ (DidPop /\ AtStartHeight /\ FrameBefore.unreachable) =>
       /\ last.ret.validated.val = Unknown
       /\ last.ret.validated.ok
       /\ last.ret.result = "Ok"
  /\ (DidPop /\ AtStartHeight /\ ~FrameBefore.unreachable) =>
       /\ ~last.ret.validated.ok
       /\ last.ret.validated.error = "stack underflow"
       /\ last.ret.result = "Fail"
  /\ DidPop =>
       /\ Len(mod.stack) >= FrameBefore.height
       /\ SubSeq(mod.stack, 1, FrameBefore.height)
            = SubSeq(last.before.stack, 1, FrameBefore.height)
  /\ (DidPush /\ FrameBefore.unreachable) =>
       /\ Len(mod.stack) > FrameBefore.height
       /\ mod.stack[Len(mod.stack)] = last.instruction.T
       /\ Len(mod.stack) =
            IF last.instruction.op = "unop" /\ ~AtStartHeight
            THEN Len(last.before.stack)
            ELSE Len(last.before.stack) + 1

\* an operator on a value in an inner frame that is unreachable and holds no
\* value, over values of the enclosing frame: it pops an unknown and its
\* result is pushed
C24_Witness ==
  /\ DidPop
  /\ last.instruction.op = "unop"
  /\ AtStartHeight
  /\ FrameBefore.unreachable
  /\ FrameBefore.height >= 1
  /\ Len(last.before.frames) >= 2
  /\ last.ret.validated.val = Unknown
  /\ last.ret.result = "Ok"
  /\ mod.stack = Append(last.before.stack, last.instruction.T)

\* the callback made the call fn(context, arg)
Called(fn, arg) ==
  \E k \in 1..Len(last.ret.calls) : last.ret.calls[k] = Call(fn, arg)

\* what the validation step of the last callback returned
StepReturned ==
  CASE last.op = "BeginTypeSection" -> last.began
    [] last.op = "OnItem" -> last.valid
    [] last.op = "BeginCode" -> last.began /\ last.locals
    [] last.op = "OnInstruction" -> Validate(last.before, last.instruction).ok

\* C30: a callback returns Fail exactly when its validation step returns
\* false, and Ok otherwise; BeginCode calls valid::BeginCode first and
\* validates the locals only if it succeeded; BeginTypeSection passes 0 for a
\* count that could not be read
C30_Callbacks ==
  last.op # "none" =>
    /\ last.ret.result = (IF StepReturned THEN "Ok" ELSE "Fail")
    /\ last.op = "BeginCode" =>
         /\ last.ret.calls[1] = Call("valid::BeginCode", "code.loc")
         /\ Called("Validate", "code.locals") <=> last.began
         /\ ~last.began => last.ret.result = "Fail"
         /\ Len(last.ret.calls) = (IF last.began THEN 2 ELSE 1)
    /\ last.op = "BeginTypeSection" =>
         /\ Len(last.ret.calls) = 1
         /\ last.ret.calls[1].fn = "valid::BeginTypeSection"
         /\ last.sec.count.ok => last.ret.calls[1].arg = last.sec.count.val
         /\ ~last.sec.count.ok => last.ret.calls[1].arg = 0

\* valid::BeginCode failed on a function whose locals are valid
C30_Witness ==
  /\ last.op = "BeginCode"
  /\ ~last.began
  /\ last.locals
  /\ last.ret.result = "Fail"
  /\ last.ret.calls = <<Call("valid::BeginCode", "code.loc")>>

====
